---- MODULE Spec2Model ----
(***************************************************************************)
(* State-machine model of the Zenith runtime: the signal primitive, the   *)
(* process-wide cleanup registry, the side-effect scopes and schedulers,  *)
(* and the payload-driven hydration engine.                               *)
(*                                                                        *)
(* The specifications share the variables:                                *)
(*   SpecSig    one signal with user subscriber functions                 *)
(*   SpecHyd    hydrate / unmount / signal writes / clicks on one payload *)
(*   SpecErr    SpecHyd with values the marker engine refuses to render   *)
(*   SpecEff    page-level zenEffect / zeneffect / zenMount               *)
(*              registrations around hydrate and cleanup                  *)
(*   SpecTrack  zenEffects whose callbacks read, write, throw and dispose *)
(*   SpecSched  effects under every scheduler, with the clock             *)
(*   SpecScope  component scopes with mounts and effects                  *)
(*   SpecVal    hydrate's validation of the payload tables                *)
(*   SpecState  one state() container over a heap of objects              *)
(*   SpecFreeze hydrate's freeze of the payload it was given              *)
(*   SpecEvt    hydrate's event bindings, the Escape dispatcher and the   *)
(*              payloads that break the contract                          *)
(*   SpecComp   component instances with effects and mounts of their own  *)
(*   SpecHtml   the builder of embedded-markup fragments                   *)
(*   SpecReg    page disposers that register, throw and call cleanup       *)
(*   SpecAbort  hydrate with components whose mount() throws               *)
(*   SpecDeps   zeneffect with dependencies that cannot be subscribed      *)
(*   SpecReent  one signal whose subscribers write it again                *)
(*   SpecMount  mounts of both builds of zenMount with their handles       *)
(*   SpecDiag   the payload of the errors that hydrate and handlers rethrow *)
(***************************************************************************)
EXTENDS Integers, Sequences, FiniteSets, TLC

(* ---------------------------------------------------------------------- *)
(* Bounds                                                                 *)
(* ---------------------------------------------------------------------- *)
NumFns == 2
NumSignals == 2
NumMarkers == 2
NumComps == 2
MaxEffects == 2
MaxHydrates == 2
MaxWrites == 2
ThrottleMs == 2
MaxScopes == 2
MaxTable == 3
MaxEvents == 2
MaxDisposers == 3

(* diagnostics.js *)
MAX_MESSAGE_LENGTH == 120

Fns == 1..NumFns
Sigs == 1..NumSignals
Markers == 1..NumMarkers
Comps == 1..NumComps

(* TLC keeps [i \in 1..n |-> e] as an unevaluated function, and the operators of *)
(* Sequences applied to such a value overlook the EXCEPTs made on it since:     *)
(* every sequence built by a function constructor is turned into a tuple first  *)
AsTuple(f) == SubSeq(f, 1, Len(f))

(* JavaScript values a signal holds in the model.  "pz" is +0, "nz" is -0. *)
Values == {"NaN", "pz", "nz", "one"}

(* the values the page writes into signals that markers display *)
Renderable == {"pz", "one"}

(* a plain object, which _coerceText refuses to render *)
NonRenderable == {"obj"}

VARIABLES
    sigValue,      \* signal -> closure variable `value`
    subscribers,   \* signal -> the Set `subscribers`, in insertion order
    fnBody,        \* user subscriber function -> what its body does
    payload,       \* the hydration payload handed to hydrate()
    dom,           \* marker -> textContent of its node
    hostDom,       \* component -> text its effect wrote into the host node
    cleaned,       \* cleanup.js _cleaned
    disposers,     \* cleanup.js _disposers
    listeners,     \* cleanup.js _listeners
    nodeListeners, \* listeners attached to DOM nodes by addEventListener
    gen,           \* number of hydrate() calls so far (names the closures)
    scopes,        \* every side-effect scope created, by creation order
    globalScope,   \* zeneffect.js _globalScope
    effects,       \* every effect / mount created, by creation order
    microtasks,    \* the host's microtask queue
    timers,        \* the host's pending timers and animation frames
    collector,     \* zeneffect.js _activeDependencyCollector: the collecting effect, 0 = null
    heap,          \* the JavaScript objects the page and the runtime hold, by reference
    doc,           \* the document: which nodes are connected, where the focus is
    error,         \* code of the exception the last call threw, or "none"
    lastOp,        \* the API call that produced this state, with its arguments
    trace,         \* what that call did, in order
    tally          \* running counts kept across calls

vars == <<sigValue, subscribers, fnBody, payload, dom, hostDom, cleaned, disposers,
          listeners, nodeListeners, gen, scopes, globalScope, effects, microtasks,
          timers, collector, heap, doc, error, lastOp, trace, tally>>

(* The whole program state as one record, threaded through the operators. *)
World ==
    [sigValue |-> sigValue, subscribers |-> subscribers, fnBody |-> fnBody,
     payload |-> payload, dom |-> dom, hostDom |-> hostDom, cleaned |-> cleaned,
     disposers |-> disposers, listeners |-> listeners, nodeListeners |-> nodeListeners,
     gen |-> gen, scopes |-> scopes, globalScope |-> globalScope, effects |-> effects,
     microtasks |-> microtasks, timers |-> timers, collector |-> collector,
     heap |-> heap, doc |-> doc, error |-> error, lastOp |-> lastOp, trace |-> trace, tally |-> tally]

Apply(w) ==
    /\ sigValue' = w.sigValue
    /\ subscribers' = w.subscribers
    /\ fnBody' = w.fnBody
    /\ payload' = w.payload
    /\ dom' = w.dom
    /\ hostDom' = w.hostDom
    /\ cleaned' = w.cleaned
    /\ disposers' = w.disposers
    /\ listeners' = w.listeners
    /\ nodeListeners' = w.nodeListeners
    /\ gen' = w.gen
    /\ scopes' = w.scopes
    /\ globalScope' = w.globalScope
    /\ effects' = w.effects
    /\ microtasks' = w.microtasks
    /\ timers' = w.timers
    /\ collector' = w.collector
    /\ heap' = w.heap
    /\ doc' = w.doc
    /\ error' = w.error
    /\ lastOp' = w.lastOp
    /\ trace' = w.trace
    /\ tally' = w.tally

Log(w, event) == [w EXCEPT !.trace = Append(@, event)]

Events(tr, kind) == SelectSeq(tr, LAMBDA ev : ev.ev = kind)

(* ---------------------------------------------------------------------- *)
(* Sequence helpers (a JS Set or Map iterates in insertion order)         *)
(* ---------------------------------------------------------------------- *)
Range(s) == {s[i] : i \in 1..Len(s)}

SetAdd(s, x) == IF x \in Range(s) THEN s ELSE Append(s, x)

SetDelete(s, x) == SelectSeq(s, LAMBDA y : y # x)

(* [...new Set(s)] *)
RECURSIVE Dedup(_)
Dedup(s) ==
    IF s = <<>> THEN <<>>
    ELSE <<Head(s)>> \o SelectSeq(Dedup(Tail(s)), LAMBDA y : y # Head(s))

Count(s, x) == Cardinality({i \in 1..Len(s) : s[i] = x})

(* ---------------------------------------------------------------------- *)
(* zeneffect.js: scopes                                                   *)
(* ---------------------------------------------------------------------- *)
createInternalScope(w, label, mountReady) ==
    [w EXCEPT !.scopes = Append(@, [label |-> label, mountReady |-> mountReady,
                                    disposed |-> FALSE,
                                    pendingMounts |-> <<>>, disposers |-> <<>>])]

(* the closure each dependency.subscribe(() => scheduler.schedule()) creates *)
EffectCb(e, n) == [k |-> "eff", e |-> e, n |-> n]

unsubscribe(w, o, cb) ==
    LET w1 == Log([w EXCEPT !.subscribers[o] = SetDelete(@, cb)],
                  [ev |-> "unsubscribe", sig |-> o, cb |-> cb]) IN
    IF cb.k = "dep" THEN [w1 EXCEPT !.tally.unsubCalls[o] = @ + 1] ELSE w1

subscribe(w, o, cb) ==
    LET w1 == Log([w EXCEPT !.subscribers[o] = SetAdd(@, cb)],
                  [ev |-> "subscribe", sig |-> o, cb |-> cb]) IN
    IF cb.k = "dep" THEN [w1 EXCEPT !.tally.subCalls[o] = @ + 1] ELSE w1

RECURSIVE UnsubscribeAll(_, _, _)
UnsubscribeAll(w, e, i) ==
    LET subs == w.effects[e].subs IN
    IF i > Len(subs) THEN [w EXCEPT !.effects[e].subs = <<>>]
    ELSE UnsubscribeAll(unsubscribe(w, subs[i].sig, subs[i].cb), e, i + 1)

(* the host's setTimeout / requestAnimationFrame: the handle is the least id free *)
NextTimerId(w) == CHOOSE n \in 1..(Cardinality(w.timers) + 1) : \A t \in w.timers : t.id # n

setTimeout(w, e, id, delay) ==
    [w EXCEPT !.timers = @ \cup {[id |-> id, e |-> e, wait |-> delay]}]

clearTimeout(w, id) == [w EXCEPT !.timers = {t \in @ : t.id # id}]

(* createScheduler: cancel *)
clearScheduledWork(w, e) ==
    LET w1 == IF w.effects[e].debounceTimer # 0
              THEN [clearTimeout(w, w.effects[e].debounceTimer)
                       EXCEPT !.effects[e].debounceTimer = 0]
              ELSE w
        w2 == IF w1.effects[e].throttleTimer # 0
              THEN [clearTimeout(w1, w1.effects[e].throttleTimer)
                       EXCEPT !.effects[e].throttleTimer = 0]
              ELSE w1
        w3 == IF w2.effects[e].rafHandle # 0
              THEN [clearTimeout(w2, w2.effects[e].rafHandle)
                       EXCEPT !.effects[e].rafHandle = 0]
              ELSE w2
    IN [w3 EXCEPT !.effects[e].microtaskQueued = FALSE]

(* the history of an effect's runs and cleanups, kept where the tally asks for it *)
Record(w, e, h) ==
    IF w.tally.traced THEN [w EXCEPT !.effects[e].hist = Append(@, h)] ELSE w

(* how many times the body of the effect has begun, by its history *)
RunCount(eff) == Len(SelectSeq(eff.hist, LAMBDA h : h.t = "run"))

(* registerCleanup(cleanup): the n-th cleanup function that run k hands over *)
registerCleanup(w, e) ==
    LET k == RunCount(w.effects[e])
        n == 1 + Len(SelectSeq(w.effects[e].hist, LAMBDA h : h.t = "reg" /\ h.k = k))
    IN Record([w EXCEPT !.effects[e].runCleanups = Append(@, [k |-> k, n |-> n])],
              e, [t |-> "reg", k |-> k, n |-> n])

(* one cleanup() call of drainCleanupStack, newest first *)
RECURSIVE InvokeCleanups(_, _, _)
InvokeCleanups(w, e, i) ==
    IF i < 1 THEN w
    ELSE LET c == w.effects[e].runCleanups[i]
         IN InvokeCleanups(
                Log(Record(w, e, [t |-> "cleanup", k |-> c.k, n |-> c.n]),
                    [ev |-> "effectCleanup", e |-> e, k |-> c.k, n |-> c.n]),
                e, i - 1)

(* drainCleanupStack(runCleanups) *)
drainCleanupStack(w, e) ==
    [InvokeCleanups(w, e, Len(w.effects[e].runCleanups)) EXCEPT !.effects[e].runCleanups = <<>>]

(* disposeEffect, of createAutoTrackedEffect and createExplicitDependencyEffect *)
(* a brittle effect has, as its first dependency, a source of the page's own *)
(* whose unsubscribe function throws                                          *)
disposeEffect(w, e) ==
    IF w.effects[e].disposed THEN w
    ELSE LET w1 == [w EXCEPT !.effects[e].disposed = TRUE]
             w2 == clearScheduledWork(w1, e)
             w3 == UnsubscribeAll(w2, e, 1)
         IN IF w.effects[e].brittle THEN [w2 EXCEPT !.error = "UNSUBSCRIBE_THREW"]
            ELSE drainCleanupStack(w3, e)

(* zenMount: disposeMount *)
disposeMount(w, e) ==
    IF w.effects[e].disposed THEN w
    ELSE LET s == w.effects[e].scope
             w1 == [w EXCEPT !.effects[e].disposed = TRUE]
             w2 == IF ~w1.scopes[s].mountReady
                   THEN [w1 EXCEPT !.scopes[s].pendingMounts =
                                      SetDelete(@, [k |-> "mount", e |-> e])]
                   ELSE w1
         IN drainCleanupStack(w2, e)

RunScopeDisposer(w, d) ==
    CASE d.k = "effect" -> disposeEffect(w, d.e)
      [] d.k = "mount"  -> disposeMount(w, d.e)
      [] d.k = "drain"  -> drainCleanupStack(w, d.e)
      [] OTHER          -> w

(* the loop of disposeScope without its try / catch *)
RECURSIVE RunScopeDisposersUncaught(_, _, _)
RunScopeDisposersUncaught(w, ds, i) ==
    IF i < 1 \/ w.error # "none" THEN w
    ELSE RunScopeDisposersUncaught(
             RunScopeDisposer(Log(w, [ev |-> "disposer", d |-> ds[i]]), ds[i]), ds, i - 1)

(* the catch block of the loop of disposeScope *)
DropThrown(w, error0, d) ==
    IF w.error # error0
    THEN Log([w EXCEPT !.error = error0], [ev |-> "disposerThrew", d |-> d])
    ELSE w

(* the loop of disposeScope: last registered first, what a disposer throws is dropped *)
RECURSIVE RunScopeDisposers(_, _, _)
RunScopeDisposers(w, ds, i) ==
    IF i < 1 THEN w
    ELSE RunScopeDisposers(
             DropThrown(RunScopeDisposer(Log(w, [ev |-> "disposer", d |-> ds[i]]), ds[i]),
                        w.error, ds[i]),
             ds, i - 1)

disposeScope(w, s) ==
    IF w.scopes[s].disposed THEN w
    ELSE LET ds == w.scopes[s].disposers
             w1 == [w EXCEPT !.scopes[s].disposed = TRUE,
                             !.scopes[s].disposers = <<>>,
                             !.scopes[s].pendingMounts = <<>>]
         IN RunScopeDisposers(w1, ds, Len(ds))

registerScopeDisposer(w, s, d) ==
    IF w.scopes[s].disposed THEN RunScopeDisposer(w, d)
    ELSE [w EXCEPT !.scopes[s].disposers = Append(@, d)]

disposeSideEffectScope(w, s) ==
    IF s = w.globalScope THEN w ELSE disposeScope(w, s)

resetGlobalSideEffects(w) ==
    LET w1 == createInternalScope(disposeScope(w, w.globalScope), "global", TRUE)
    IN Log([w1 EXCEPT !.globalScope = Len(w1.scopes)], [ev |-> "resetGlobal"])

(* ---------------------------------------------------------------------- *)
(* hydrate.js: expression evaluation and marker rendering                 *)
(* ---------------------------------------------------------------------- *)

(* String(value), as an effect body writes it into its host node *)
String(value) ==
    CASE value = "NaN"         -> "NaN"
      [] value \in {"pz", "nz"} -> "0"
      [] value = "one"         -> "1"
      [] value = "obj"         -> "[object Object]"
      [] OTHER                 -> value

(* _coerceText, for the values it does not reject *)
_coerceText(value) ==
    CASE value \in {"null", "undefined", "false", "true"} -> ""
      [] value = "NaN"                                    -> "NaN"
      [] value \in {"pz", "nz"}                           -> "0"
      [] value = "one"                                    -> "1"
      [] OTHER                                            -> value

(* signalMap.set(i, stateValues[signals[i].state_index]) *)
signalMap(p, i) == p.signals[i]

(* componentBindings[instance].count, or "none" when the instance is absent *)
ComponentBinding(p, c) ==
    IF c \in DOMAIN p.comps THEN signalMap(p, p.comps[c].prop) ELSE 0

(* _resolveExpressionSignalIndices(binding) *)
_resolveExpressionSignalIndices(binding) ==
    CASE binding.k = "fn"     -> Dedup(binding.signal_indices)
      [] binding.k = "signal" -> <<binding.signal_index>>
      [] OTHER                -> <<>>

(* _evaluateExpression in text mode: the pieces of the rendered string *)
_evaluateExpression(w, binding) ==
    CASE binding.k = "fn" ->
            AsTuple([j \in DOMAIN binding.signal_indices |->
                w.sigValue[signalMap(w.payload, binding.signal_indices[j])]])
      [] binding.k = "signal" ->
            <<w.sigValue[signalMap(w.payload, binding.signal_index)]>>
      [] binding.k = "component" ->
            IF ComponentBinding(w.payload, binding.c) = 0 THEN <<"undefined">>
            ELSE <<w.sigValue[ComponentBinding(w.payload, binding.c)]>>
      [] binding.k = "literal" -> <<"Hello Zenith">>
      [] OTHER -> <<"">>

(* _applyMarkerValue for a text marker; _coerceText throws on a plain object *)
_applyMarkerValue(w, m, value) ==
    IF \E j \in DOMAIN value : value[j] \in NonRenderable
    THEN [w EXCEPT !.error = "NON_RENDERABLE_VALUE"]
    ELSE Log([w EXCEPT !.dom[m] = AsTuple([j \in DOMAIN value |-> _coerceText(value[j])])],
             [ev |-> "write", m |-> m])

EvaluateAndApply(w, m) ==
    LET w1 == Log(w, [ev |-> "eval", m |-> m])
    IN _applyMarkerValue(w1, m, _evaluateExpression(w1, w1.payload.exprs[m]))

(* a subscription callback that re-renders the whole marker table *)
RECURSIVE RenderFrom(_, _)
RenderFrom(w, m) ==
    IF m > Len(w.payload.exprs) THEN w
    ELSE RenderFrom(IF w.payload.exprs[m].k = "event" THEN w ELSE EvaluateAndApply(w, m), m + 1)

renderEveryMarker(w, m) ==
    LET w1 == RenderFrom(w, 1)
    IN [w1 EXCEPT !.tally.nRenders[m] = @ + 1]

renderMarkerByIndex(w, m) ==
    IF w.payload.exprs[m].k = "event" THEN w
    ELSE LET w1 == EvaluateAndApply(w, m)
         IN IF w1.error # "none" THEN w1 ELSE [w1 EXCEPT !.tally.nRenders[m] = @ + 1]

RECURSIVE RenderMarkers(_, _, _)
RenderMarkers(w, markerIndexes, i) ==
    IF i > Len(markerIndexes) \/ w.error # "none" THEN w
    ELSE RenderMarkers(renderMarkerByIndex(w, markerIndexes[i]), markerIndexes, i + 1)

(* a dependency map that opens a new entry for every reference *)
MapPushNoDedup(map, key, m) == Append(map, [key |-> key, markers |-> <<m>>])

(* Map.get(key).push(m), creating the entry on first use *)
MapPush(map, key, m) ==
    IF \E j \in DOMAIN map : map[j].key = key
    THEN AsTuple([j \in DOMAIN map |->
            IF map[j].key = key THEN [map[j] EXCEPT !.markers = Append(@, m)] ELSE map[j]])
    ELSE Append(map, [key |-> key, markers |-> <<m>>])

RECURSIVE MapPushAll(_, _, _, _)
MapPushAll(map, keys, i, m) ==
    IF i > Len(keys) THEN map
    ELSE MapPushAll(MapPush(map, keys[i], m), keys, i + 1, m)

(* lines 315-329: signal id -> marker indexes, in Map insertion order *)
RECURSIVE dependentMarkersBySignal(_, _, _)
dependentMarkersBySignal(p, i, map) ==
    IF i > Len(p.exprs) THEN map
    ELSE dependentMarkersBySignal(p, i + 1,
            MapPushAll(map, _resolveExpressionSignalIndices(p.exprs[i]), 1, i))

(* lines 346-370: component signal object -> marker indexes *)
RECURSIVE dependentMarkersByComponentSignal(_, _, _)
dependentMarkersByComponentSignal(p, i, map) ==
    IF i > Len(p.exprs) THEN map
    ELSE dependentMarkersByComponentSignal(p, i + 1,
            IF p.exprs[i].k = "component" /\ ComponentBinding(p, p.exprs[i].c) # 0
            THEN MapPush(map, ComponentBinding(p, p.exprs[i].c), i)
            ELSE map)

DependencyMap(p, which) ==
    IF which = "signal" THEN dependentMarkersBySignal(p, 1, <<>>)
    ELSE dependentMarkersByComponentSignal(p, 1, <<>>)

(* the closure passed to subscribe at lines 336 and 373 *)
MarkerCb(g, which, key) == [k |-> "dep", gen |-> g, map |-> which, key |-> key]

MarkerIndexes(p, cb) ==
    LET map == DependencyMap(p, cb.map)
        j == CHOOSE j \in DOMAIN map : map[j].key = cb.key
    IN map[j].markers

(* ---------------------------------------------------------------------- *)
(* zeneffect.js: running and scheduling effects                           *)
(* ---------------------------------------------------------------------- *)
SortedSeq(S) ==
    LET n == Cardinality(S)
    IN AsTuple([i \in 1..n |-> CHOOSE x \in S : Cardinality({y \in S : y < x}) = i - 1])

(* _trackDependency(source): the collector keeps the first source seen per reactive id *)
_trackDependency(w, o) ==
    IF w.collector = 0 THEN w
    ELSE [w EXCEPT !.effects[w.collector].nextDependenciesById = SetAdd(@, o)]

(* signal.get() *)
SignalGet(w, o) == _trackDependency(Log(w, [ev |-> "get", sig |-> o, collector |-> w.collector]), o)

RECURSIVE SignalSet(_, _, _)

(* one statement of an effect or mount callback; the callback's own dispose *)
(* handle is not bound yet while the registering call has not returned       *)
Step(w, e, st) ==
    CASE st.op = "get" ->
            IF st.gate = 0 THEN SignalGet(w, st.sig)
            ELSE LET w1 == SignalGet(w, st.gate)
                 IN IF w1.sigValue[st.gate] = "one" THEN SignalGet(w1, st.sig) ELSE w1
      [] st.op = "set"     -> SignalSet(w, st.sig, st.val)
      [] st.op = "cleanup" -> registerCleanup(w, e)
      [] st.op = "dispose" ->
            LET w1 == IF st.gate = 0 THEN w ELSE SignalGet(w, st.gate)
            IN IF st.gate # 0 /\ w1.sigValue[st.gate] # "one" THEN w1
               ELSE IF w1.lastOp.op = "zenEffect" /\ w1.lastOp.e = e
                    THEN [w1 EXCEPT !.error = "EFFECT_THREW"]
                    ELSE disposeEffect(w1, e)
      [] st.op = "throw"   ->
            LET w1 == SignalGet(w, st.gate)
            IN IF w1.sigValue[st.gate] = "one" THEN [w1 EXCEPT !.error = "EFFECT_THREW"] ELSE w1
      [] OTHER             -> w

RECURSIVE RunSteps(_, _, _)
RunSteps(w, e, i) ==
    IF i > Len(w.effects[e].body) \/ w.error # "none" THEN w
    ELSE RunSteps(Step(w, e, w.effects[e].body[i]), e, i + 1)

(* the start of one run of a callback, noted in its history *)
BeginRun(w, e) ==
    Log(Record(w, e, [t |-> "run", k |-> RunCount(w.effects[e]) + 1]), [ev |-> "run", e |-> e])

(* the write of the host node by a callback that has one *)
WriteHost(w, c, o) ==
    Log([w EXCEPT !.hostDom[c] = String(w.sigValue[o])], [ev |-> "hostWrite", c |-> c])

RunHost(w, e) ==
    IF w.effects[e].host = 0 \/ w.effects[e].reads = <<>> THEN w
    ELSE WriteHost(SignalGet(w, w.effects[e].reads[1]), w.effects[e].host, w.effects[e].reads[1])

(* applyCleanupResult(result, registerCleanup): a callback that threw returns nothing *)
applyCleanupResult(w, e) == IF w.error # "none" THEN w ELSE registerCleanup(w, e)

EndRun(w, e) == Log(w, [ev |-> "runEnd", e |-> e, threw |-> w.error # "none"])

(* effect(createEffectContext(registerCleanup)) and applyCleanupResult(result, ...): *)
(* the callback runs its statements, writes its host node if it has one, and      *)
(* returns a cleanup function unless it threw                                     *)
RunBody(w, e) ==
    EndRun(applyCleanupResult(RunSteps(RunHost(BeginRun(w, e), e), e, 1), e), e)

RECURSIVE DropStale(_, _, _, _)
DropStale(w, e, next, i) ==
    LET subs == w.effects[e].subs IN
    IF i > Len(subs) THEN w
    ELSE IF subs[i].sig \in next THEN DropStale(w, e, next, i + 1)
         ELSE DropStale([unsubscribe(w, subs[i].sig, subs[i].cb)
                            EXCEPT !.effects[e].subs = SetDelete(@, subs[i])],
                        e, next, i)

RECURSIVE AddNew(_, _, _, _)
AddNew(w, e, nextDependencies, i) ==
    IF i > Len(nextDependencies) THEN w
    ELSE LET o == nextDependencies[i] IN
         IF \E j \in DOMAIN w.effects[e].subs : w.effects[e].subs[j].sig = o
         THEN AddNew(w, e, nextDependencies, i + 1)
         ELSE AddNew([subscribe(w, o, EffectCb(e, o))
                        EXCEPT !.effects[e].subs = Append(@, [sig |-> o, cb |-> EffectCb(e, o)])],
                     e, nextDependencies, i + 1)

(* runEffectNow: the subscriptions are reconciled with the sources the run read *)
reconcileDependencies(w, e, next) ==
    AddNew(DropStale(w, e, next, 1), e, SortedSeq(next), 1)

(* runEffectNow: the finally block, then the reconciliation unless the run threw *)
finishTrackedRun(w, e, previousCollector) ==
    IF w.error # "none"
    THEN [w EXCEPT !.collector = previousCollector,
                   !.effects[e].nextDependenciesById = <<>>]
    ELSE reconcileDependencies([w EXCEPT !.collector = previousCollector,
                                         !.effects[e].nextDependenciesById = <<>>],
                               e, Range(w.effects[e].nextDependenciesById))

(* runEffectNow: the try block, under a collector of the effect's own *)
trackedRun(w, e) ==
    finishTrackedRun(RunBody([w EXCEPT !.collector = e,
                                       !.effects[e].nextDependenciesById = <<>>], e),
                     e, w.collector)

(* the try block with a finally block that clears the collector *)
trackedRunClearsCollector(w, e) ==
    finishTrackedRun(RunBody([w EXCEPT !.collector = e,
                                       !.effects[e].nextDependenciesById = <<>>], e),
                     e, 0)

(* runEffectNow without the check of the disposed flags on entry *)
runEffectNowUnguarded(w, e) == trackedRun(drainCleanupStack(w, e), e)

(* runEffectNow with a finally block that clears the collector instead of *)
(* restoring the saved one                                                *)
runEffectNowClearsCollector(w, e) ==
    IF w.effects[e].disposed \/ w.scopes[w.effects[e].scope].disposed THEN w
    ELSE trackedRunClearsCollector(drainCleanupStack(w, e), e)

(* createAutoTrackedEffect: runEffectNow *)
runEffectNow(w, e) ==
    IF w.effects[e].disposed \/ w.scopes[w.effects[e].scope].disposed THEN w
    ELSE trackedRun(drainCleanupStack(w, e), e)

(* createExplicitDependencyEffect: runNow *)
runNow(w, e) ==
    IF w.effects[e].disposed \/ w.scopes[w.effects[e].scope].disposed THEN w
    ELSE RunBody(drainCleanupStack(w, e), e)

(* createScheduler: invokeNow *)
(* lastRunAt is kept as the time elapsed since it, -1 for the initial 0, and *)
(* only for the effects whose scheduler reads it                               *)
invokeNow(w, e) ==
    LET w1 == [w EXCEPT !.effects[e].microtaskQueued = FALSE,
                        !.effects[e].debounceTimer = 0,
                        !.effects[e].throttleTimer = 0,
                        !.effects[e].rafHandle = 0,
                        !.effects[e].elapsed = IF w.effects[e].options.throttleMs > 0 THEN 0 ELSE -1,
                        !.effects[e].notes = 0]
        w2 == Log(w1, [ev |-> "invokeNow", e |-> e])
    IN IF w2.effects[e].kind = "auto" THEN runEffectNow(w2, e) ELSE runNow(w2, e)

(* the debounce branch of schedule *)
scheduleDebounce(w, e) ==
    LET w1 == IF w.effects[e].debounceTimer # 0
              THEN clearTimeout(w, w.effects[e].debounceTimer) ELSE w
        id == NextTimerId(w1)
    IN [setTimeout(w1, e, id, w.effects[e].options.debounceMs)
           EXCEPT !.effects[e].debounceTimer = id]

(* the throttle branch of schedule *)
scheduleThrottle(w, e) ==
    LET eff == w.effects[e]
        id == NextTimerId(w)
    IN IF eff.elapsed = -1 \/ eff.elapsed >= eff.options.throttleMs THEN invokeNow(w, e)
       ELSE IF eff.throttleTimer # 0 THEN w
       ELSE [setTimeout(w, e, id, eff.options.throttleMs - eff.elapsed)
                EXCEPT !.effects[e].throttleTimer = id]

(* the raf branch of schedule: the next frame, when requestAnimationFrame exists *)
scheduleRaf(w, e) ==
    LET w1 == IF w.effects[e].rafHandle # 0
              THEN clearTimeout(w, w.effects[e].rafHandle) ELSE w
        id == NextTimerId(w1)
    IN [setTimeout(w1, e, id, 1) EXCEPT !.effects[e].rafHandle = id]

(* a scheduler whose post flush forgets the microtaskQueued flag *)
scheduleUncoalesced(w, e) ==
    IF w.effects[e].options.debounceMs > 0 THEN scheduleDebounce(w, e)
    ELSE IF w.effects[e].options.throttleMs > 0 THEN scheduleThrottle(w, e)
    ELSE IF w.effects[e].options.raf THEN scheduleRaf(w, e)
    ELSE IF w.effects[e].options.flush = "sync" THEN invokeNow(w, e)
    ELSE [w EXCEPT !.effects[e].microtaskQueued = TRUE,
                   !.microtasks = Append(@, e)]

(* createScheduler: schedule *)
schedule(w, e) ==
    IF w.effects[e].options.debounceMs > 0 THEN scheduleDebounce(w, e)
    ELSE IF w.effects[e].options.throttleMs > 0 THEN scheduleThrottle(w, e)
    ELSE IF w.effects[e].options.raf THEN scheduleRaf(w, e)
    ELSE IF w.effects[e].options.flush = "sync" THEN invokeNow(w, e)
    ELSE IF w.effects[e].microtaskQueued THEN w
    ELSE [w EXCEPT !.effects[e].microtaskQueued = TRUE,
                   !.microtasks = Append(@, e)]

(* zenMount: invokeMount *)
invokeMount(w, e) ==
    IF w.effects[e].disposed \/ w.scopes[w.effects[e].scope].disposed THEN w
    ELSE RunBody(w, e)

(* the V0 build of zeneffect.js, zenMount: the catch block of runMount *)
CatchMountError(w) ==
    IF w.error = "none" THEN w
    ELSE Log([w EXCEPT !.error = "none"], [ev |-> "consoleError"])

(* the V0 build, zenMount: runMount; registeredDisposer is the function that *)
(* registerScopeDisposer returns                                             *)
runMount(w, e) ==
    IF w.scopes[w.effects[e].scope].disposed \/ w.effects[e].executed THEN w
    ELSE [registerScopeDisposer(
              CatchMountError(RunBody([w EXCEPT !.effects[e].executed = TRUE], e)),
              w.effects[e].scope, [k |-> "drain", e |-> e])
            EXCEPT !.effects[e].registeredDisposer = TRUE]

(* the V0 build: unregisterScopeDisposer, returned by registerScopeDisposer *)
unregisterScopeDisposer(w, s, d) ==
    IF w.scopes[s].disposed THEN w
    ELSE [w EXCEPT !.scopes[s].disposers = SetDelete(@, d)]

(* the V0 build, zenMount: the dispose function it returns *)
disposeV0(w, e) ==
    IF w.effects[e].registeredDisposer
    THEN unregisterScopeDisposer(w, w.effects[e].scope, [k |-> "drain", e |-> e])
    ELSE drainCleanupStack(w, e)

RunPending(w, cb) ==
    CASE cb.k = "schedule" -> schedule(w, cb.e)
      [] cb.k = "mount"    -> invokeMount(w, cb.e)
      [] cb.k = "runMount" -> runMount(w, cb.e)
      [] OTHER             -> w

queueWhenScopeReady(w, s, cb) ==
    IF w.scopes[s].disposed THEN w
    ELSE IF w.scopes[s].mountReady THEN RunPending(w, cb)
    ELSE [w EXCEPT !.scopes[s].pendingMounts = Append(@, cb)]

DEFAULT_EFFECT_OPTIONS == [debounceMs |-> 0, throttleMs |-> 0, raf |-> FALSE, flush |-> "post"]

(* the closure state of one effect or mount; notes, doomed and handled (the   *)
(* handle of a V0 mount was called) are bookkeeping                           *)
NewEffect(kind, s, options, reads, host) ==
    [kind |-> kind, scope |-> s, disposed |-> FALSE, options |-> options,
     microtaskQueued |-> FALSE, debounceTimer |-> 0, throttleTimer |-> 0,
     rafHandle |-> 0, elapsed |-> -1,
     subs |-> <<>>, reads |-> reads, host |-> host,
     body |-> <<>>, nextDependenciesById |-> <<>>, runCleanups |-> <<>>,
     executed |-> FALSE, registeredDisposer |-> FALSE, handled |-> FALSE,
     hist |-> <<>>, notes |-> 0, doomed |-> FALSE, brittle |-> FALSE]

(* a callback that only reads the given signals, in that order *)
Reads(deps) == AsTuple([i \in DOMAIN deps |-> [op |-> "get", sig |-> deps[i], gate |-> 0]])

(* zenEffect(effect, options, scope) *)
createAutoTrackedEffect(w, options, body, s) ==
    LET e == Len(w.effects) + 1
        w1 == [w EXCEPT !.effects = Append(@, [NewEffect("auto", s, options, <<>>, 0)
                                                  EXCEPT !.body = body])]
    IN queueWhenScopeReady(registerScopeDisposer(w1, s, [k |-> "effect", e |-> e]),
                           s, [k |-> "schedule", e |-> e])

(* the loop over the dependencies; one that is no signal of the page stands *)
(* for a value without subscribe, at which the loop throws                  *)
RECURSIVE SubscribeDeps(_, _, _)
SubscribeDeps(w, e, i) ==
    LET deps == w.effects[e].reads IN
    IF i > Len(deps) THEN w
    ELSE IF deps[i] \notin Sigs THEN [w EXCEPT !.error = "DEPENDENCY_WITHOUT_SUBSCRIBE"]
    ELSE SubscribeDeps([subscribe(w, deps[i], EffectCb(e, i))
                          EXCEPT !.effects[e].subs = Append(@, [sig |-> deps[i], cb |-> EffectCb(e, i)])],
                       e, i + 1)

(* registerScopeDisposer(scope, disposeEffect) and queueWhenScopeReady(...), *)
(* which a throw of the loop before them skips                              *)
RegisterAndQueue(w, e, s) ==
    IF w.error # "none" THEN w
    ELSE queueWhenScopeReady(registerScopeDisposer(w, s, [k |-> "effect", e |-> e]),
                             s, [k |-> "schedule", e |-> e])

(* zeneffect(fn, deps, scope) *)
createExplicitDependencyEffect(w, dependencies, s, host) ==
    IF dependencies = <<>> THEN [w EXCEPT !.error = "DEPS_REQUIRED"] ELSE
    LET e == Len(w.effects) + 1
        w1 == [w EXCEPT !.effects = Append(@, NewEffect("explicit", s, DEFAULT_EFFECT_OPTIONS,
                                                         dependencies, host))]
    IN RegisterAndQueue(SubscribeDeps(w1, e, 1), e, s)

(* zenMount(callback, scope), for a callback with the given statements *)
zenMountCallback(w, s, body) ==
    LET e == Len(w.effects) + 1
        w1 == [w EXCEPT !.effects = Append(@, [NewEffect("mount", s, DEFAULT_EFFECT_OPTIONS,
                                                          <<>>, 0) EXCEPT !.body = body])]
    IN registerScopeDisposer(queueWhenScopeReady(w1, s, [k |-> "mount", e |-> e]),
                             s, [k |-> "mount", e |-> e])

(* zenMount(callback, scope) *)
zenMount(w, s) == zenMountCallback(w, s, <<>>)

(* the V0 build: zenMount(callback, scopeOverride) *)
zenMountV0(w, s, body) ==
    LET e == Len(w.effects) + 1
    IN queueWhenScopeReady(
           [w EXCEPT !.effects = Append(@, [NewEffect("mountV0", s, DEFAULT_EFFECT_OPTIONS,
                                                      <<>>, 0) EXCEPT !.body = body])],
           s, [k |-> "runMount", e |-> e])

RECURSIVE RunPendingAll(_, _, _)
RunPendingAll(w, pending, i) ==
    IF i > Len(pending) THEN w
    ELSE RunPendingAll(RunPending(w, pending[i]), pending, i + 1)

(* activateSideEffectScope that leaves the pending callbacks in the scope *)
activateKeepsPending(w, s) ==
    IF w.scopes[s].disposed THEN w
    ELSE LET pending == w.scopes[s].pendingMounts
             w1 == [w EXCEPT !.scopes[s].mountReady = TRUE]
         IN RunPendingAll(w1, pending, 1)

(* export function createSideEffectScope(label) *)
createSideEffectScope(w) == createInternalScope(w, "component", FALSE)

activateSideEffectScope(w, s) ==
    IF w.scopes[s].disposed THEN w
    ELSE LET pending == w.scopes[s].pendingMounts
             w1 == [w EXCEPT !.scopes[s].mountReady = TRUE,
                             !.scopes[s].pendingMounts = <<>>]
         IN RunPendingAll(w1, pending, 1)

(* JavaScript arguments: a function with its statements, an array of sources, *)
(* an options object, or undefined; an option left out is <<>>, one given is *)
(* <<value>>                                                                 *)
FunctionArg(body) == [t |-> "function", body |-> body]
ArrayArg(deps) == [t |-> "array", deps |-> deps]
Undefined == [t |-> "undefined"]
OptionsArg(debounceMs, throttleMs, raf, flush) ==
    [t |-> "object", debounceMs |-> debounceMs, throttleMs |-> throttleMs,
     raf |-> raf, flush |-> flush]

(* normalizeDelay(value, fieldName): -1 stands for the thrown error *)
normalizeDelay(value) ==
    IF value = <<>> THEN 0
    ELSE IF value[1] < 0 THEN -1
    ELSE value[1]

(* normalizeEffectOptions(options) *)
normalizeEffectOptionsAnyModes(options) ==
    IF options.t = "undefined" THEN [error |-> "none", options |-> DEFAULT_EFFECT_OPTIONS]
    ELSE IF options.t # "object" THEN [error |-> "OPTIONS_OBJECT", options |-> DEFAULT_EFFECT_OPTIONS]
    ELSE LET debounceMs == normalizeDelay(options.debounceMs)
             throttleMs == normalizeDelay(options.throttleMs)
             normalized == [debounceMs |-> debounceMs, throttleMs |-> throttleMs,
                            raf |-> options.raf = <<TRUE>>,
                            flush |-> IF options.flush = <<"sync">> THEN "sync" ELSE "post"]
         IN IF debounceMs < 0 \/ throttleMs < 0
            THEN [error |-> "OPTIONS_DELAY", options |-> DEFAULT_EFFECT_OPTIONS]
            ELSE IF options.flush \notin {<<>>, <<"sync">>, <<"post">>}
            THEN [error |-> "OPTIONS_FLUSH", options |-> DEFAULT_EFFECT_OPTIONS]
            ELSE [error |-> "none", options |-> normalized]

normalizeEffectOptions(options) ==
    IF options.t = "undefined" THEN [error |-> "none", options |-> DEFAULT_EFFECT_OPTIONS]
    ELSE IF options.t # "object" THEN [error |-> "OPTIONS_OBJECT", options |-> DEFAULT_EFFECT_OPTIONS]
    ELSE LET debounceMs == normalizeDelay(options.debounceMs)
             throttleMs == normalizeDelay(options.throttleMs)
             normalized == [debounceMs |-> debounceMs, throttleMs |-> throttleMs,
                            raf |-> options.raf = <<TRUE>>,
                            flush |-> IF options.flush = <<"sync">> THEN "sync" ELSE "post"]
             schedulingModes == (IF debounceMs > 0 THEN 1 ELSE 0)
                                  + (IF throttleMs > 0 THEN 1 ELSE 0)
                                  + (IF normalized.raf THEN 1 ELSE 0)
         IN IF debounceMs < 0 \/ throttleMs < 0
            THEN [error |-> "OPTIONS_DELAY", options |-> DEFAULT_EFFECT_OPTIONS]
            ELSE IF options.flush \notin {<<>>, <<"sync">>, <<"post">>}
            THEN [error |-> "OPTIONS_FLUSH", options |-> DEFAULT_EFFECT_OPTIONS]
            ELSE IF schedulingModes > 1
            THEN [error |-> "OPTIONS_SCHEDULER", options |-> DEFAULT_EFFECT_OPTIONS]
            ELSE [error |-> "none", options |-> normalized]

(* export function zenEffect(effect, options, scopeOverride) *)
zenEffect(w, effect, options, s) ==
    IF effect.t # "function" THEN [w EXCEPT !.error = "REQUIRE_FUNCTION"]
    ELSE LET normalizedOptions == normalizeEffectOptions(options)
         IN IF normalizedOptions.error # "none"
            THEN [w EXCEPT !.error = normalizedOptions.error]
            ELSE createAutoTrackedEffect(w, normalizedOptions.options, effect.body, s)

(* the callback of an explicit effect: the statements of the function given *)
WithCallback(w, body) ==
    IF w.error \notin {"none", "DEPENDENCY_WITHOUT_SUBSCRIBE"} THEN w
    ELSE [w EXCEPT !.effects[Len(w.effects)].body = body]

(* zeneffect without the branch that accepts the dependency array first *)
zeneffectFunctionFirst(w, effect, dependenciesOrOptions, s) ==
    IF effect.t # "function" THEN [w EXCEPT !.error = "REQUIRE_FUNCTION"]
    ELSE IF dependenciesOrOptions.t = "array"
    THEN WithCallback(createExplicitDependencyEffect(w, dependenciesOrOptions.deps, s, 0),
                      effect.body)
    ELSE zenEffect(w, effect, dependenciesOrOptions, s)

(* export function zeneffect(effect, dependenciesOrOptions, scopeOverride) *)
(* the callback takes the place of the effect once the effect exists: its first *)
(* run is queued, never made inside the call                                    *)
zeneffect(w, effect, dependenciesOrOptions, s) ==
    LET swapped == effect.t = "array" /\ dependenciesOrOptions.t = "function"
        fn == IF swapped THEN dependenciesOrOptions ELSE effect
        second == IF swapped THEN effect ELSE dependenciesOrOptions
    IN IF fn.t # "function" THEN [w EXCEPT !.error = "REQUIRE_FUNCTION"]
       ELSE IF second.t = "array"
       THEN WithCallback(createExplicitDependencyEffect(w, second.deps, s, 0), fn.body)
       ELSE zenEffect(w, fn, second, s)

(* ---------------------------------------------------------------------- *)
(* hydrate.js: _validatePayload, over the three index tables of a payload  *)
(* whose other fields are valid; position i of a table is element i + 1    *)
(* ---------------------------------------------------------------------- *)

(* the least position whose entry differs from the position, -1 if none *)
FirstMismatch(table) ==
    LET bad == {i \in 0..(Len(table) - 1) : table[i + 1] # i}
    IN IF bad = {} THEN -1 ELSE CHOOSE i \in bad : \A j \in bad : i <= j

(* the message of the Error the expressions loop throws, "" if it throws none *)
ValidateExpressions(expressions) ==
    LET i == FirstMismatch(expressions) IN
    IF i < 0 THEN ""
    ELSE IF expressions[i + 1] < 0 \/ expressions[i + 1] >= Len(expressions)
    THEN "[Zenith Runtime] expression at position " \o ToString(i) \o " has invalid marker_index"
    ELSE "[Zenith Runtime] expression table out of order at position " \o ToString(i)
            \o ": marker_index=" \o ToString(expressions[i + 1])

ValidateMarkers(markers, expressions) ==
    LET i == FirstMismatch(markers) IN
    IF i < 0 THEN ""
    ELSE IF markers[i + 1] < 0 \/ markers[i + 1] >= Len(expressions)
    THEN "[Zenith Runtime] marker at position " \o ToString(i) \o " has out-of-bounds index"
    ELSE "[Zenith Runtime] marker table out of order at position " \o ToString(i)
            \o ": index=" \o ToString(markers[i + 1])

ValidateSignals(signals) ==
    LET i == FirstMismatch(signals) IN
    IF i < 0 THEN ""
    ELSE IF signals[i + 1] < 0
    THEN "[Zenith Runtime] signal descriptor at position " \o ToString(i)
            \o " requires non-negative id"
    ELSE "[Zenith Runtime] signal table out of order at position " \o ToString(i)
            \o ": id=" \o ToString(signals[i + 1])

(* the same loops without their `!== i` comparisons *)
ValidateRangesOnly(p) ==
    IF Len(p.markers) # Len(p.expressions)
    THEN "[Zenith Runtime] marker/expression mismatch: markers=" \o ToString(Len(p.markers))
            \o ", expressions=" \o ToString(Len(p.expressions))
    ELSE IF \E i \in DOMAIN p.expressions :
               p.expressions[i] < 0 \/ p.expressions[i] >= Len(p.expressions)
    THEN "[Zenith Runtime] expression has invalid marker_index"
    ELSE IF \E i \in DOMAIN p.markers : p.markers[i] < 0 \/ p.markers[i] >= Len(p.expressions)
    THEN "[Zenith Runtime] marker has out-of-bounds index"
    ELSE IF \E i \in DOMAIN p.signals : p.signals[i] < 0
    THEN "[Zenith Runtime] signal descriptor requires non-negative id"
    ELSE ""

(* _validatePayload(payload): the message of the Error it throws, "" if it returns *)
_validatePayload(p) ==
    IF Len(p.markers) # Len(p.expressions)
    THEN "[Zenith Runtime] marker/expression mismatch: markers=" \o ToString(Len(p.markers))
            \o ", expressions=" \o ToString(Len(p.expressions))
    ELSE IF ValidateExpressions(p.expressions) # "" THEN ValidateExpressions(p.expressions)
    ELSE IF ValidateMarkers(p.markers, p.expressions) # ""
    THEN ValidateMarkers(p.markers, p.expressions)
    ELSE ValidateSignals(p.signals)

(* diagnostics.js: _truncate(input, maxLength) *)
_truncate(input, maxLength) ==
    IF Len(input) <= maxLength THEN input
    ELSE SubSeq(input, 1, maxLength - 3) \o "..."

(* the part of one text in another, and single characters and their classes *)
Contains(text, part) ==
    \E i \in 1..(Len(text) - Len(part) + 1) : SubSeq(text, i, i + Len(part) - 1) = part

UpperCase == "ABCDEFGHIJKLMNOPQRSTUVWXYZ"
LowerCase == "abcdefghijklmnopqrstuvwxyz"

CharAt(text, i) == SubSeq(text, i, i)

IsLetter(c) == Contains(UpperCase, c) \/ Contains(LowerCase, c)

(* the character class \w *)
IsWordChar(c) == IsLetter(c) \/ Contains("0123456789_", c)

(* the character class \s, for the white space the inputs use *)
IsSpace(c) == c \in {" ", "\t", "\n", "\r", "\f"}

(* what the i flag of a regular expression does to one character *)
FoldCase(c) ==
    IF Contains(UpperCase, c)
    THEN CharAt(LowerCase, CHOOSE k \in 1..Len(UpperCase) : CharAt(UpperCase, k) = c)
    ELSE c

(* the literal `word` matches at position i, ignoring case *)
MatchesAt(text, i, word) ==
    /\ i + Len(word) - 1 <= Len(text)
    /\ \A k \in 1..Len(word) : FoldCase(CharAt(text, i + k - 1)) = CharAt(word, k)

(* the class of characters that the path expressions repeat: no white space, *)
(* no quote; the backquote, which the class excludes too, is in no input      *)
IsPathChar(c) == ~IsSpace(c) /\ c \notin {"\"", "'"}

(* the first position from i on that satisfies the test, 0 if none does *)
FirstFrom(S) == IF S = {} THEN 0 ELSE CHOOSE x \in S : \A y \in S : x <= y

(* the position behind the run of such characters that starts at i *)
RunEnd(text, i) ==
    IF \A k \in i..Len(text) : IsPathChar(CharAt(text, k)) THEN Len(text) + 1
    ELSE FirstFrom({k \in i..Len(text) : ~IsPathChar(CharAt(text, k))})

(* the head of one of the six expressions matches at i: [A-Za-z]:\\ for the  *)
(* root "drive", the literal text of the root otherwise                      *)
RootLength(root) == IF root = "drive" THEN 3 ELSE Len(root)

RootAt(text, i, root) ==
    /\ i + RootLength(root) - 1 <= Len(text)
    /\ IF root = "drive"
       THEN IsLetter(CharAt(text, i)) /\ SubSeq(text, i + 1, i + 2) = ":\\"
       ELSE SubSeq(text, i, i + Len(root) - 1) = root

(* one expression matches at i: its head and at least one such character *)
PathAt(text, i, root) ==
    /\ RootAt(text, i, root)
    /\ RunEnd(text, i + RootLength(root)) > i + RootLength(root)

(* .replace(/<root>...+/g, '<path>') from position i on: the text up to   *)
(* the next match, <path>, and the rest from behind the match on           *)
NextPath(text, i, root) == FirstFrom({k \in i..Len(text) : PathAt(text, k, root)})

RECURSIVE ReplacePaths(_, _, _)
ReplacePaths(text, i, root) ==
    IF NextPath(text, i, root) = 0 THEN SubSeq(text, i, Len(text))
    ELSE SubSeq(text, i, NextPath(text, i, root) - 1) \o "<path>"
            \o ReplacePaths(text,
                            RunEnd(text, NextPath(text, i, root) + RootLength(root)), root)

(* diagnostics.js: _sanitizeAbsolutePaths(value), six replaces in a row *)
_sanitizeAbsolutePaths(value) ==
    ReplacePaths(ReplacePaths(ReplacePaths(ReplacePaths(ReplacePaths(ReplacePaths(
        value, 1, "drive"), 1, "/Users/"), 1, "/home/"), 1, "/private/"), 1, "/tmp/"),
        1, "/var/folders/")

(* .replace(/\s+/g, ' ') from position i on: the text up to the next run *)
(* of white space, one blank, and the rest from behind the run on         *)
NextSpace(text, i) == FirstFrom({k \in i..Len(text) : IsSpace(CharAt(text, k))})

SpaceEnd(text, i) ==
    IF \A k \in i..Len(text) : IsSpace(CharAt(text, k)) THEN Len(text) + 1
    ELSE FirstFrom({k \in i..Len(text) : ~IsSpace(CharAt(text, k))})

RECURSIVE CompactSpace(_, _)
CompactSpace(text, i) ==
    IF NextSpace(text, i) = 0 THEN SubSeq(text, i, Len(text))
    ELSE SubSeq(text, i, NextSpace(text, i) - 1) \o " "
            \o CompactSpace(text, SpaceEnd(text, NextSpace(text, i)))

(* .trim() of a text whose white space is single blanks *)
Trim(text) ==
    LET from == IF Len(text) > 0 /\ CharAt(text, 1) = " " THEN 2 ELSE 1
        to == IF Len(text) > 0 /\ CharAt(text, Len(text)) = " " THEN Len(text) - 1
              ELSE Len(text)
    IN IF from > to THEN "" ELSE SubSeq(text, from, to)

(* compact || 'Runtime failure' *)
OrRuntimeFailure(compact) == IF compact = "" THEN "Runtime failure" ELSE compact

(* diagnostics.js: _sanitizeMessage(value) on any text: the paths, the white *)
(* space, the trim and the truncation                                        *)
SanitizedMessage(value) ==
    _truncate(OrRuntimeFailure(Trim(CompactSpace(_sanitizeAbsolutePaths(value), 1))),
              MAX_MESSAGE_LENGTH)

(* diagnostics.js: _sanitizeMessage(value), for a message without file paths *)
(* and without runs of white space, as the runtime's own messages are        *)
_sanitizeMessage(value) ==
    _truncate(IF value = "" THEN "Runtime failure" ELSE value, MAX_MESSAGE_LENGTH)

(* diagnostics.js: rethrowZenithRuntimeError(error, fallback) for a plain Error: *)
(* the message of the ZenithRuntimeError that hydrate's catch block throws        *)
rethrowZenithRuntimeError(message) ==
    "[Zenith Runtime] BINDING_APPLY_FAILED: "
        \o _sanitizeMessage(_sanitizeMessage(_sanitizeMessage(message)))

(* ---------------------------------------------------------------------- *)
(* signal.js                                                              *)
(* ---------------------------------------------------------------------- *)

(* a === b, the comparison a slip would use instead of Object.is *)
StrictEquals(a, b) ==
    \/ (a = b /\ a # "NaN")
    \/ ({a, b} = {"pz", "nz"})

(* Object.is(a, b): SameValue; NaN equals NaN, +0 differs from -0 *)
ObjectIs(a, b) == a = b

UserFn(f) == [k |-> "fn", id |-> f]

(* The body of a user subscriber function, run with the notifying signal. *)
RunUserFn(w, o, f) ==
    LET body == w.fnBody[f] IN
    CASE body.act = "unsub" -> unsubscribe(w, o, UserFn(body.tgt))
      [] body.act = "sub"   -> subscribe(w, o, UserFn(body.tgt))
      [] body.act = "set"   ->
            IF w.sigValue[o] = body.when
            THEN SignalSet(Log(w, [ev |-> "userSet", v |-> body.x]), o, body.x)
            ELSE w
      [] OTHER              -> w

(* marker subscriptions that put the re-render off until a later flush *)
InvokeSubscriberDeferred(w, o, cb) ==
    LET w1 == Log(w, [ev |-> "call", cb |-> cb, sig |-> o, arg |-> w.sigValue[o]]) IN
    CASE cb.k = "fn"  -> RunUserFn(w1, o, cb.id)
      [] cb.k = "eff" -> schedule([w1 EXCEPT !.effects[cb.e].notes = @ + 1], cb.e)
      [] OTHER        -> w1

(* snapshot[i](value) *)
InvokeSubscriber(w, o, cb) ==
    LET w1 == Log(w, [ev |-> "call", cb |-> cb, sig |-> o, arg |-> w.sigValue[o]]) IN
    CASE cb.k = "fn"  -> RunUserFn(w1, o, cb.id)
      [] cb.k = "dep" -> RenderMarkers(w1, MarkerIndexes(w1.payload, cb), 1)
      [] cb.k = "eff" -> schedule([w1 EXCEPT !.effects[cb.e].notes = @ + 1], cb.e)
      [] OTHER        -> w1

(* A notification loop that walks the live Set instead of the snapshot. *)
RECURSIVE NotifyLive(_, _, _, _)
NotifyLive(w, o, snapshot, i) ==
    IF i > Len(w.subscribers[o]) \/ w.error # "none" THEN w
    ELSE NotifyLive(InvokeSubscriber(w, o, w.subscribers[o][i]), o, snapshot, i + 1)

(* A notification loop that catches what a subscriber throws and goes on. *)
RECURSIVE NotifyPastThrow(_, _, _, _)
NotifyPastThrow(w, o, snapshot, i) ==
    IF i > Len(snapshot) THEN w
    ELSE NotifyPastThrow(InvokeSubscriber(w, o, snapshot[i]), o, snapshot, i + 1)

(* for (let i = 0; i < snapshot.length; i++) snapshot[i](value) *)
RECURSIVE Notify(_, _, _, _)
Notify(w, o, snapshot, i) ==
    IF i > Len(snapshot) \/ w.error # "none" THEN w
    ELSE Notify(InvokeSubscriber(w, o, snapshot[i]), o, snapshot, i + 1)

(* A set that hands each subscriber the value captured when the pass began. *)
InvokeSubscriberWith(w, o, cb, arg) ==
    LET w1 == Log(w, [ev |-> "call", cb |-> cb, sig |-> o, arg |-> arg]) IN
    CASE cb.k = "fn"  -> RunUserFn(w1, o, cb.id)
      [] cb.k = "dep" -> RenderMarkers(w1, MarkerIndexes(w1.payload, cb), 1)
      [] cb.k = "eff" -> schedule([w1 EXCEPT !.effects[cb.e].notes = @ + 1], cb.e)
      [] OTHER        -> w1

RECURSIVE NotifyCaptured(_, _, _, _, _)
NotifyCaptured(w, o, snapshot, i, arg) ==
    IF i > Len(snapshot) \/ w.error # "none" THEN w
    ELSE NotifyCaptured(InvokeSubscriberWith(w, o, snapshot[i], arg), o, snapshot, i + 1, arg)

SignalSetPassingNext(w, o, nextValue) ==
    IF ObjectIs(w.sigValue[o], nextValue) THEN w
    ELSE LET w1 == [w EXCEPT !.sigValue[o] = nextValue, !.tally.nWrites[o] = @ + 1]
         IN NotifyCaptured(w1, o, w1.subscribers[o], 1, nextValue)

(* signal.set(nextValue) *)
SignalSet(w, o, nextValue) ==
    IF ObjectIs(w.sigValue[o], nextValue) THEN w
    ELSE LET w1 == [w EXCEPT !.sigValue[o] = nextValue, !.tally.nWrites[o] = @ + 1]
         IN Notify(w1, o, w1.subscribers[o], 1)

(* ---------------------------------------------------------------------- *)
(* JavaScript values: a primitive, or a reference into the heap            *)
(* ---------------------------------------------------------------------- *)
Prim(p) == [r |-> 0, p |-> p]
Ref(r) == [r |-> r, p |-> ""]
Absent == Prim("absent")

(* an object of the payload: its prototype, the frozen flag, Object.keys    *)
(* and the values under those keys (the elements of an array)               *)
PObj(proto, keys, vals) == [proto |-> proto, frozen |-> FALSE, keys |-> keys, vals |-> vals]

HasOwn(o, key) == \E i \in DOMAIN o.keys : o.keys[i] = key

(* o[key], undefined when the key is absent *)
Prop(o, key) ==
    IF HasOwn(o, key) THEN o.vals[CHOOSE i \in DOMAIN o.keys : o.keys[i] = key]
    ELSE Prim("undefined")

(* value[key] for a value that may be a primitive *)
PropOf(h, value, key) == IF value.r = 0 THEN Prim("undefined") ELSE Prop(h[value.r], key)

(* target.current = value: a TypeError on a frozen object and on undefined *)
SetCurrent(w, target, value) ==
    IF target.r = 0 \/ w.heap[target.r].frozen THEN [w EXCEPT !.error = "TypeError"]
    ELSE IF HasOwn(w.heap[target.r], "current")
    THEN [w EXCEPT !.heap[target.r].vals[CHOOSE i \in DOMAIN w.heap[target.r].keys :
                                            w.heap[target.r].keys[i] = "current"] = value]
    ELSE [w EXCEPT !.heap[target.r].keys = Append(@, "current"),
                   !.heap[target.r].vals = Append(w.heap[target.r].vals, value)]

(* hydrate.js 196-200: hydratedRefs[i].current = null *)
RECURSIVE ClearRefs(_, _, _)
ClearRefs(w, hydratedRefs, i) ==
    IF i > Len(hydratedRefs) \/ w.error # "none" THEN w
    ELSE ClearRefs(SetCurrent(w, hydratedRefs[i], Prim("null")), hydratedRefs, i + 1)

(* ---------------------------------------------------------------------- *)
(* cleanup.js                                                             *)
(* ---------------------------------------------------------------------- *)
_registerDisposer(w, dispose) ==
    [w EXCEPT !.disposers = Append(@, dispose), !.cleaned = FALSE]

(* a registration that a throw before it skips *)
_registerDisposerUnlessThrown(w, dispose) ==
    IF w.error # "none" THEN w ELSE _registerDisposer(w, dispose)

_registerListener(w, listener) ==
    [w EXCEPT !.listeners = Append(@, listener), !.cleaned = FALSE]

(* typeof instance.mount === 'function', typeof instance.destroy === 'function': *)
(* a component table that does not say has both methods                          *)
HasMethod(comp, name) == IF name \in DOMAIN comp THEN comp[name] ELSE TRUE

(* if (typeof instance.destroy === 'function') instance.destroy() *)
DestroyInstance(w, c) ==
    IF HasMethod(w.payload.comps[c], "destroy") THEN Log(w, [ev |-> "destroy", c |-> c])
    ELSE w

RECURSIVE cleanup(_)

(* a function of the page: what its body does, whether it ran before, and *)
(* how often it was called                                                *)
FunctionObject(act) == [proto |-> "Function", act |-> act, done |-> FALSE, calls |-> 0]

(* the page's disposer registers one more function with the registry *)
RegisterFurther(w) ==
    _registerDisposer([w EXCEPT !.heap = Append(@, FunctionObject("return"))],
                      [k |-> "page", fn |-> Len(w.heap) + 1])

(* the call of a function the page handed to _registerDisposer; what it   *)
(* throws ends in the catch block of cleanup's loop                       *)
PageDisposerBody(w, fn) ==
    CASE w.heap[fn].act = "throw"       -> Log(w, [ev |-> "disposerThrew", fn |-> fn])
      [] w.heap[fn].act = "register"    -> RegisterFurther(w)
      [] w.heap[fn].act = "cleanupOnce" ->
            IF w.heap[fn].done THEN w ELSE cleanup([w EXCEPT !.heap[fn].done = TRUE])
      [] OTHER                          -> w

PageDisposer(w, fn) ==
    PageDisposerBody(Log([w EXCEPT !.heap[fn].calls = @ + 1], [ev |-> "pageDisposer", fn |-> fn]),
                     fn)

(* one entry of _disposers, as registered by hydrate or by the page *)
RunDisposer(w, d) ==
    LET w1 == Log(w, [ev |-> "dispose", d |-> d]) IN
    CASE d.k = "unsub"     -> unsubscribe(w1, d.sig, d.cb)
      [] d.k = "component" -> DestroyInstance(disposeSideEffectScope(w1, d.scope), d.c)
      [] d.k = "refs"      -> ClearRefs(w1, d.refs, 1)
      [] d.k = "page"      -> PageDisposer(w1, d.fn)
      [] OTHER             -> w1

(* a teardown loop that stops one entry short of the oldest disposer *)
RECURSIVE RunDisposersOffByOne(_, _)
RunDisposersOffByOne(w, i) ==
    IF i < 2 THEN w ELSE RunDisposersOffByOne(RunDisposer(w, w.disposers[i]), i - 1)

(* _disposers[i]() for i from the last index down; the call of an index a *)
(* nested cleanup() emptied throws a TypeError that the loop catches      *)
RECURSIVE RunDisposers(_, _)
RunDisposers(w, i) ==
    IF i < 1 THEN w
    ELSE IF i > Len(w.disposers)
    THEN RunDisposers(Log(w, [ev |-> "disposerThrew", i |-> i]), i - 1)
    ELSE RunDisposers(RunDisposer(w, w.disposers[i]), i - 1)

RECURSIVE RemoveListeners(_, _)
RemoveListeners(w, i) ==
    IF i < 1 THEN w
    ELSE RemoveListeners(
            Log([w EXCEPT !.nodeListeners = @ \ {w.listeners[i]}],
                [ev |-> "removeListener", l |-> w.listeners[i]]),
            i - 1)

(* the loop over _disposers, newest first, and _disposers.length = 0 *)
DisposeAll(w) == [RunDisposers(w, Len(w.disposers)) EXCEPT !.disposers = <<>>]

(* the loop over _listeners, newest first, and _listeners.length = 0 *)
RemoveAllListeners(w) == [RemoveListeners(w, Len(w.listeners)) EXCEPT !.listeners = <<>>]

(* a cleanup() without the _cleaned guard *)
cleanupUnguarded(w) ==
    [resetGlobalSideEffects(RemoveAllListeners(DisposeAll(w))) EXCEPT !.cleaned = TRUE]

cleanup(w) ==
    IF w.cleaned THEN w
    ELSE [resetGlobalSideEffects(RemoveAllListeners(DisposeAll(w))) EXCEPT !.cleaned = TRUE]

(* ---------------------------------------------------------------------- *)
(* hydrate.js: hydrate(payload)                                           *)
(* ---------------------------------------------------------------------- *)

(* lines 204-244, one component with one host *)
ComponentEffect(w, c, s, prop) ==
    IF w.payload.comps[c].uses = "zeneffect"
    THEN createExplicitDependencyEffect(w, <<prop>>, s, c)
    ELSE IF w.payload.comps[c].uses = "zenMount" THEN zenMount(w, s)
    ELSE IF w.payload.comps[c].uses = "both"
    THEN zenMount(createExplicitDependencyEffect(w, <<prop>>, s, c), s)
    ELSE w

(* a component table says so when the mount() of its instances throws *)
MountThrows(comp) == IF "mountThrows" \in DOMAIN comp THEN comp.mountThrows ELSE FALSE

(* if (typeof instance.mount === 'function') instance.mount(); what mount() *)
(* throws goes to the catch block of hydrate                                *)
MountInstance(w, c) ==
    IF ~HasMethod(w.payload.comps[c], "mount") THEN w
    ELSE IF MountThrows(w.payload.comps[c])
    THEN [Log(w, [ev |-> "mount", c |-> c])
             EXCEPT !.error = rethrowZenithRuntimeError("mount failed")]
    ELSE Log(w, [ev |-> "mount", c |-> c])

(* an instantiation that makes the scope ready before it calls mount() *)
CreateComponentReadyFirst(w, c) ==
    _registerDisposer(
        MountInstance(
            activateSideEffectScope(
                ComponentEffect(Log(w, [ev |-> "create", c |-> c,
                                        prop |-> signalMap(w.payload, w.payload.comps[c].prop)]),
                                c, Len(w.scopes),
                                signalMap(w.payload, w.payload.comps[c].prop)),
                Len(w.scopes)),
            c),
        [k |-> "component", c |-> c, scope |-> Len(w.scopes)])

(* lines 233-239: activateSideEffectScope(componentScope) and the disposer *)
(* of the component, which a throw of mount() skips                         *)
ActivateAndRegister(w, c, s) ==
    IF w.error # "none" THEN w
    ELSE _registerDisposer(activateSideEffectScope(w, s),
                           [k |-> "component", c |-> c, scope |-> s])

(* the component is created on the scope made for it, then mounted *)
CreateComponent(w, c) ==
    LET s == Len(w.scopes)
        prop == signalMap(w.payload, w.payload.comps[c].prop)
    IN ActivateAndRegister(
           MountInstance(ComponentEffect(Log(w, [ev |-> "create", c |-> c, prop |-> prop]),
                                         c, s, prop),
                         c),
           c, s)

InstantiateComponent(w, c) == CreateComponent(createInternalScope(w, "component", FALSE), c)

RECURSIVE InstantiateComponents(_, _)
InstantiateComponents(w, c) ==
    IF c > Len(w.payload.comps) \/ w.error # "none" THEN w
    ELSE InstantiateComponents(InstantiateComponent(w, c), c + 1)

(* lines 258-285: initial render in marker-table order *)
RECURSIVE InitialRender(_, _)
InitialRender(w, m) ==
    IF m > Len(w.payload.exprs) \/ w.error # "none" THEN w
    ELSE InitialRender(IF w.payload.exprs[m].k = "event" THEN w ELSE EvaluateAndApply(w, m),
                       m + 1)

(* lines 331-344 and 372-381: one subscription per map entry *)
RECURSIVE SubscribeEntries(_, _, _, _)
SubscribeEntries(w, which, map, j) ==
    IF j > Len(map) \/ w.error # "none" THEN w
    ELSE LET o == IF which = "signal" THEN signalMap(w.payload, map[j].key) ELSE map[j].key
             cb == MarkerCb(w.gen, which, map[j].key)
             w1 == subscribe(w, o, cb)
         IN SubscribeEntries(_registerDisposer(w1, [k |-> "unsub", sig |-> o, cb |-> cb]),
                             which, map, j + 1)

(* lines 383-442: addEventListener plus _registerListener per event marker *)
RECURSIVE BindEvents(_, _)
BindEvents(w, m) ==
    IF m > Len(w.payload.exprs) \/ w.error # "none" THEN w
    ELSE IF w.payload.exprs[m].k # "event" THEN BindEvents(w, m + 1)
    ELSE LET l == [m |-> m, gen |-> w.gen]
             w1 == Log([w EXCEPT !.nodeListeners = @ \cup {l}], [ev |-> "addListener", l |-> l])
         IN BindEvents(_registerListener(w1, l), m + 1)

SubscribeMap(w, which) == SubscribeEntries(w, which, DependencyMap(w.payload, which), 1)

HydrateFrom(w0) ==
    BindEvents(
        SubscribeMap(SubscribeMap(InitialRender(InstantiateComponents(w0, 1), 1), "signal"),
                     "component"),
        1)

(* a hydrate() that does not tear the previous mount down first *)
hydrateWithoutCleanup(w) == HydrateFrom([w EXCEPT !.gen = @ + 1])

hydrate(w) == HydrateFrom([cleanup(w) EXCEPT !.gen = @ + 1])

(* the host runs every queued microtask before the next task *)
(* an exception that leaves a microtask or timer callback goes to the host *)
ReportUncaught(w) ==
    IF w.error = "none" THEN w
    ELSE [Log(w, [ev |-> "uncaught", code |-> w.error]) EXCEPT !.error = "none"]

RECURSIVE DrainMicrotasks(_)
DrainMicrotasks(w) ==
    IF w.microtasks = <<>> THEN w
    ELSE DrainMicrotasks(ReportUncaught(invokeNow([w EXCEPT !.microtasks = Tail(@)],
                                                  Head(w.microtasks))))

(* the click handler of an event marker: handler.call(this, event) *)
zenithEventHandler(w, m) ==
    SignalSet(w, signalMap(w.payload, w.payload.exprs[m].sets), "one")

(* ---------------------------------------------------------------------- *)
(* Inputs                                                                 *)
(* ---------------------------------------------------------------------- *)
FnBodies ==
    {[act |-> "none", tgt |-> 0]}
    \cup {[act |-> a, tgt |-> g] : a \in {"unsub", "sub"}, g \in Fns}

(* signal_indices tables of compiled expression functions *)
FnDeps == {<<NumSignals, 1, NumSignals>>}

ExprKinds ==
    {[k |-> "literal"], [k |-> "event", sets |-> 1]}
    \cup {[k |-> "signal", signal_index |-> i] : i \in Sigs}
    \cup {[k |-> "fn", signal_indices |-> s] : s \in FnDeps}
    \cup {[k |-> "component", c |-> c] : c \in Comps}

(* component tables: n instances that all receive the same signal as a prop *)
CompTables ==
    {<<>>} \cup {AsTuple([c \in 1..n |-> [prop |-> 1, uses |-> u]]) :
                    n \in Comps, u \in {"none", "zeneffect"}}

Payloads ==
    [exprs : [Markers -> ExprKinds], comps : CompTables,
     signals : {AsTuple([i \in Sigs |-> i])}]

NoOp == [op |-> "init"]

(* a page without esc bindings: nothing connected, the focus on nothing *)
NoDocument == [activeElement |-> 0, connected |-> {}, parent |-> <<>>]

(* the effects already disposed and the sources each effect is subscribed to *)
PreState(w) ==
    [dead |-> {e \in DOMAIN w.effects :
                 w.effects[e].disposed \/ w.scopes[w.effects[e].scope].disposed},
     subs |-> AsTuple([e \in DOMAIN w.effects |->
                 {w.effects[e].subs[i].sig : i \in DOMAIN w.effects[e].subs}])]

Begin(w, op) ==
    [w EXCEPT !.lastOp = op, !.trace = <<>>, !.error = "none", !.tally.pre = PreState(w)]

ZeroTally ==
    [subCalls |-> AsTuple([o \in Sigs |-> 0]), unsubCalls |-> AsTuple([o \in Sigs |-> 0]),
     run |-> 0, mounted |-> FALSE, writes |-> 0, cleanupsInRow |-> 0,
     pre |-> [dead |-> {}, subs |-> <<>>], traced |-> FALSE,
     nWrites |-> AsTuple([o \in Sigs |-> 0]), nRenders |-> AsTuple([m \in Markers |-> 0])]

(* marks the effects on a global scope that a cleanup() call is about to cover *)
Doom(w) ==
    [w EXCEPT !.effects = AsTuple([e \in DOMAIN @ |->
                             IF w.scopes[@[e].scope].label = "global"
                             THEN [@[e] EXCEPT !.doomed = TRUE] ELSE @[e]])]

(* per effect: notifications received since its last run, if it can still run *)
PendingNotes(w) ==
    AsTuple([e \in DOMAIN w.effects |->
        IF w.effects[e].disposed \/ w.scopes[w.effects[e].scope].disposed
        THEN 0 ELSE w.effects[e].notes])

(* the runtime's modules as loaded, before any call *)
InitRuntime ==
    /\ subscribers = AsTuple([o \in Sigs |-> <<>>])
    /\ dom = AsTuple([m \in Markers |-> <<"ssr">>])
    /\ hostDom = AsTuple([c \in Comps |-> "ssr"])
    /\ cleaned = FALSE
    /\ disposers = <<>>
    /\ listeners = <<>>
    /\ nodeListeners = {}
    /\ gen = 0
    /\ scopes = <<[label |-> "global", mountReady |-> TRUE, disposed |-> FALSE,
                   pendingMounts |-> <<>>, disposers |-> <<>>]>>
    /\ globalScope = 1
    /\ effects = <<>>
    /\ microtasks = <<>>
    /\ timers = {}
    /\ collector = 0
    /\ error = "none"
    /\ lastOp = NoOp
    /\ trace = <<>>
    /\ tally = ZeroTally

InitWorld ==
    /\ InitRuntime
    /\ sigValue = AsTuple([o \in Sigs |-> "pz"])
    /\ heap = <<>>
    /\ doc = NoDocument

(* ---------------------------------------------------------------------- *)
(* Actions: the calls a page script or the host makes                     *)
(* ---------------------------------------------------------------------- *)
Hydrate ==
    /\ gen < MaxHydrates
    /\ LET k == IF tally.run = 0 THEN 1 ELSE tally.run + 1
           w0 == [World EXCEPT !.tally.run = k, !.tally.mounted = TRUE,
                     !.tally.cleanupsInRow = 0,
                     !.tally.subCalls = IF k = 1 THEN ZeroTally.subCalls ELSE @,
                     !.tally.unsubCalls = IF k = 1 THEN ZeroTally.unsubCalls ELSE @,
                     !.tally.nWrites = ZeroTally.nWrites,
                     !.tally.nRenders = ZeroTally.nRenders]
       IN Apply(hydrate(Begin(Doom(w0), [op |-> "hydrate", k |-> k])))

(* unmount() is cleanup() *)
Unmount ==
    Apply(cleanup(Begin(Doom([World EXCEPT !.tally.run = 0, !.tally.mounted = FALSE,
                                           !.tally.cleanupsInRow = IF @ < 2 THEN @ + 1 ELSE @]),
                           [op |-> "cleanup"])))

Set(o, x) ==
    /\ tally.writes < MaxWrites
    /\ Apply(SignalSet(Begin([World EXCEPT !.tally.writes = @ + 1, !.tally.cleanupsInRow = 0],
                             [op |-> "set", sig |-> o, arg |-> x, prev |-> sigValue[o],
                              subs |-> subscribers[o]]), o, x))

Click(m) ==
    /\ tally.writes < MaxWrites
    /\ microtasks = <<>>
    /\ \E l \in nodeListeners :
          /\ l.m = m
          /\ Apply(zenithEventHandler(Begin([World EXCEPT !.tally.writes = @ + 1,
                                                          !.tally.cleanupsInRow = 0],
                                            [op |-> "click", m |-> m, l |-> l,
                                             sig |-> signalMap(payload, payload.exprs[m].sets),
                                             arg |-> "one",
                                             prev |-> sigValue[signalMap(payload, payload.exprs[m].sets)],
                                             subs |-> subscribers[signalMap(payload, payload.exprs[m].sets)]]), m))

Flush ==
    /\ microtasks # <<>>
    /\ Apply(DrainMicrotasks(Begin([World EXCEPT !.tally.cleanupsInRow = 0],
                                   [op |-> "flush", notes |-> PendingNotes(World)])))

(* d milliseconds pass: timers come closer, throttle windows run out *)
Advance(w, d) ==
    [w EXCEPT !.timers = {[t EXCEPT !.wait = IF @ > d THEN @ - d ELSE 0] : t \in @},
              !.effects = AsTuple([e \in DOMAIN @ |->
                             IF @[e].elapsed >= 0 /\ @[e].elapsed < @[e].options.throttleMs
                             THEN [@[e] EXCEPT !.elapsed =
                                      IF @ + d > w.effects[e].options.throttleMs
                                      THEN w.effects[e].options.throttleMs ELSE @ + d]
                             ELSE @[e]])]

(* a timer or animation frame fires, no earlier than it is due: the host calls invokeNow *)
TimerFires ==
    /\ microtasks = <<>>
    /\ \E t \in timers :
          Apply(invokeNow(Begin(Advance([World EXCEPT !.tally.cleanupsInRow = 0,
                                                      !.timers = @ \ {t}], t.wait),
                                [op |-> "timer", e |-> t.e]), t.e))

(* a millisecond passes and nothing fires *)
Tick ==
    /\ Advance(World, 1) # World
    /\ Apply(Begin(Advance(World, 1), [op |-> "tick"]))

(* page-level registrations: no scope override, so the global scope *)
ZenEffect(options, body) ==
    /\ Len(effects) < MaxEffects
    /\ Apply(createAutoTrackedEffect(
                Begin([World EXCEPT !.tally.cleanupsInRow = 0],
                      [op |-> "zenEffect", e |-> Len(effects) + 1]),
                options, body, globalScope))

Zeneffect(dependencies) ==
    /\ Len(effects) < MaxEffects
    /\ Apply(createExplicitDependencyEffect(
                Begin([World EXCEPT !.tally.cleanupsInRow = 0],
                      [op |-> "zeneffect", e |-> Len(effects) + 1]),
                dependencies, globalScope, 0))

ZenMount ==
    /\ Len(effects) < MaxEffects
    /\ Apply(zenMount(Begin([World EXCEPT !.tally.cleanupsInRow = 0],
                            [op |-> "zenMount", e |-> Len(effects) + 1]), globalScope))

(* zenEffect(effect, options) as a page script calls it *)
ZenEffectCall(effect, options) ==
    /\ Len(effects) < MaxEffects
    /\ Apply(zenEffect(Begin([World EXCEPT !.tally.cleanupsInRow = 0],
                             [op |-> "zenEffect", e |-> Len(effects) + 1, options |-> options,
                              disposers |-> scopes[globalScope].disposers,
                              subscribers |-> subscribers, microtasks |-> microtasks]),
                       effect, options, globalScope))

(* zeneffect(a, b) as a page script calls it, in either argument order *)
ZeneffectCall(a, b) ==
    /\ Len(effects) < MaxEffects
    /\ Apply(zeneffect(Begin([World EXCEPT !.tally.cleanupsInRow = 0],
                             [op |-> "zeneffect", e |-> Len(effects) + 1, a |-> a, b |-> b]),
                       a, b, globalScope))

(* a component scope is made, activated and disposed, as hydrate does per host *)
CreateScope ==
    /\ Len(scopes) < 1 + MaxScopes
    /\ Apply(createSideEffectScope(Begin(World, [op |-> "createScope", s |-> Len(scopes) + 1])))

Activate(s) ==
    /\ s \in DOMAIN scopes
    /\ Apply(activateSideEffectScope(
                Begin(World, [op |-> "activate", s |-> s, ready |-> scopes[s].mountReady,
                              disposed |-> scopes[s].disposed]), s))

DisposeScope(s) ==
    /\ s \in DOMAIN scopes
    /\ Apply(disposeSideEffectScope(
                Begin(World, [op |-> "disposeScope", s |-> s, disposed |-> scopes[s].disposed,
                              disposers |-> scopes[s].disposers]), s))

(* zenMount(callback, scope) and zeneffect(fn, deps, scope) on a scope of any state; *)
(* brittle: the first dependency is a source whose unsubscribe throws                *)
ZenMountOn(s) ==
    /\ s \in DOMAIN scopes
    /\ Len(effects) < MaxEffects
    /\ Apply(zenMount(Begin(World, [op |-> "zenMount", e |-> Len(effects) + 1, s |-> s]), s))

WithBrittle(w, e, brittle) == [w EXCEPT !.effects[e].brittle = brittle]

ZeneffectOn(s, brittle) ==
    /\ s \in DOMAIN scopes
    /\ Len(effects) < MaxEffects
    /\ Apply(WithBrittle(
                zeneffect(Begin(World, [op |-> "zeneffect", e |-> Len(effects) + 1, s |-> s]),
                          FunctionArg(<<>>), ArrayArg(<<1>>), s),
                Len(effects) + 1, brittle))

(* the dispose handle of an effect or mount on any scope *)
DisposeHandle(e) ==
    /\ e \in DOMAIN effects
    /\ ~effects[e].disposed
    /\ Apply(RunScopeDisposer(Begin(World, [op |-> "dispose", e |-> e]),
                              [k |-> IF effects[e].kind = "mount" THEN "mount" ELSE "effect",
                               e |-> e]))

(* the catch block of hydrate, for the message of what the try block threw *)
Rethrow(w, message) ==
    IF message = "" THEN w
    ELSE [w EXCEPT !.error = rethrowZenithRuntimeError(message)]

(* hydrate(payload) up to the end of its validation: cleanup(), then         *)
(* _validatePayload inside the try block whose catch rethrows                *)
ValidatePayload ==
    Apply(Rethrow(cleanup(Begin(World, [op |-> "validate"])), _validatePayload(payload)))

(* the dispose handle a registration returned *)
Dispose(e) ==
    /\ e \in DOMAIN effects
    /\ scopes[effects[e].scope].label = "global"
    /\ ~effects[e].disposed
    /\ Apply(RunScopeDisposer(Begin([World EXCEPT !.tally.cleanupsInRow = 0],
                                    [op |-> "dispose", e |-> e]),
                              [k |-> IF effects[e].kind = "mount" THEN "mount" ELSE "effect",
                               e |-> e]))

(* ---------------------------------------------------------------------- *)
(* SpecSig: one signal, user functions subscribing and unsubscribing       *)
(* ---------------------------------------------------------------------- *)
InitSig ==
    /\ InitWorld
    /\ fnBody \in [Fns -> FnBodies]
    /\ payload = [exprs |-> <<>>, comps |-> <<>>, signals |-> AsTuple([i \in Sigs |-> i])]

SigSubscribe(f) ==
    Apply(subscribe(Begin(World, [op |-> "subscribe", sig |-> 1, fn |-> f]), 1, UserFn(f)))

SigUnsubscribe(f) ==
    /\ UserFn(f) \in Range(subscribers[1])
    /\ Apply(unsubscribe(Begin(World, [op |-> "unsubscribe", sig |-> 1, fn |-> f]), 1, UserFn(f)))

SigSet(x) ==
    Apply([SignalSet(Begin(World, [op |-> "set", sig |-> 1, arg |-> x,
                                   prev |-> sigValue[1], subs |-> subscribers[1]]), 1, x)
              EXCEPT !.tally = ZeroTally])

NextSig ==
    \/ \E f \in Fns : SigSubscribe(f)
    \/ \E f \in Fns : SigUnsubscribe(f)
    \/ \E x \in Values : SigSet(x)

SpecSig == InitSig /\ [][NextSig]_vars

(* ---------------------------------------------------------------------- *)
(* SpecHyd: hydrate, unmount, signal writes, clicks, microtask flushes     *)
(* ---------------------------------------------------------------------- *)
InitHyd ==
    /\ InitWorld
    /\ fnBody = AsTuple([f \in Fns |-> [act |-> "none", tgt |-> 0]])
    /\ payload \in Payloads

NextHyd ==
    \/ Hydrate
    \/ Unmount
    \/ \E o \in Sigs, x \in Renderable : Set(o, x)
    \/ \E m \in Markers : Click(m)
    \/ Flush

SpecHyd == InitHyd /\ [][NextHyd]_vars

(* ---------------------------------------------------------------------- *)
(* SpecErr: SpecHyd with writes of values that markers cannot render       *)
(* ---------------------------------------------------------------------- *)
NextErr ==
    \/ Hydrate
    \/ Unmount
    \/ \E o \in Sigs, x \in {"one"} \cup NonRenderable : Set(o, x)
    \/ \E m \in Markers : Click(m)
    \/ Flush

SpecErr == InitHyd /\ [][NextErr]_vars

(* ---------------------------------------------------------------------- *)
(* SpecEff: page-level effects and mounts around hydrate and cleanup       *)
(* ---------------------------------------------------------------------- *)
EffectOptions ==
    {DEFAULT_EFFECT_OPTIONS,
     [DEFAULT_EFFECT_OPTIONS EXCEPT !.flush = "sync"],
     [DEFAULT_EFFECT_OPTIONS EXCEPT !.debounceMs = 1],
     [DEFAULT_EFFECT_OPTIONS EXCEPT !.raf = TRUE]}

(* a payload that registers nothing with cleanup.js, and one that registers a *)
(* marker subscription and a component with its own zeneffect                *)
PayloadsEff ==
    {p \in Payloads :
        \/ (p.comps = <<>> /\ \A m \in Markers : p.exprs[m].k = "literal")
        \/ /\ Len(p.comps) = 1
           /\ p.comps[1].uses = "zeneffect"
           /\ p.exprs[1] = [k |-> "signal", signal_index |-> 1]
           /\ \A m \in Markers \ {1} : p.exprs[m].k = "literal"}

InitEff ==
    /\ InitWorld
    /\ fnBody = AsTuple([f \in Fns |-> [act |-> "none", tgt |-> 0]])
    /\ payload \in PayloadsEff

NextEff ==
    \/ Hydrate
    \/ Unmount
    \/ \E options \in EffectOptions : ZenEffect(options, Reads(<<1>>))
    \/ Zeneffect(<<1>>)
    \/ ZenMount
    \/ \E e \in 1..MaxEffects : Dispose(e)
    \/ \E x \in Renderable : Set(1, x)
    \/ Flush
    \/ TimerFires

SpecEff == InitEff /\ [][NextEff]_vars

(* ---------------------------------------------------------------------- *)
(* SpecTrack: page-level zenEffects whose callbacks read, write, throw and  *)
(* dispose, with their run and cleanup histories kept                       *)
(* ---------------------------------------------------------------------- *)
BodiesTrack ==
    {Reads(<<1>>),
     Reads(<<NumSignals>>),
     Reads(<<NumSignals, 1>>),
     <<[op |-> "get", sig |-> NumSignals, gate |-> 1]>>,
     Reads(<<1>>) \o <<[op |-> "set", sig |-> NumSignals, val |-> "one"]>> \o Reads(<<1>>),
     <<[op |-> "throw", gate |-> NumSignals]>>,
     <<[op |-> "cleanup"], [op |-> "dispose", gate |-> 1]>>}

OptionsTrack == {DEFAULT_EFFECT_OPTIONS, [DEFAULT_EFFECT_OPTIONS EXCEPT !.flush = "sync"]}

InitTrack ==
    /\ sigValue = AsTuple([o \in Sigs |-> "pz"])
    /\ subscribers = AsTuple([o \in Sigs |-> <<>>])
    /\ dom = AsTuple([m \in Markers |-> <<"ssr">>])
    /\ hostDom = AsTuple([c \in Comps |-> "ssr"])
    /\ cleaned = FALSE
    /\ disposers = <<>>
    /\ listeners = <<>>
    /\ nodeListeners = {}
    /\ gen = 0
    /\ scopes = <<[label |-> "global", mountReady |-> TRUE, disposed |-> FALSE,
                   pendingMounts |-> <<>>, disposers |-> <<>>]>>
    /\ globalScope = 1
    /\ effects = <<>>
    /\ microtasks = <<>>
    /\ timers = {}
    /\ collector = 0
    /\ heap = <<>>
    /\ doc = NoDocument
    /\ error = "none"
    /\ lastOp = NoOp
    /\ trace = <<>>
    /\ tally = [ZeroTally EXCEPT !.traced = TRUE]
    /\ fnBody = AsTuple([f \in Fns |-> [act |-> "none", tgt |-> 0]])
    /\ payload = [exprs |-> <<>>, comps |-> <<>>, signals |-> AsTuple([i \in Sigs |-> i])]

NextTrack ==
    \/ \E options \in OptionsTrack, body \in BodiesTrack : ZenEffect(options, body)
    \/ \E e \in 1..MaxEffects : Dispose(e)
    \/ \E o \in Sigs, x \in Renderable : Set(o, x)
    \/ Flush

SpecTrack == InitTrack /\ [][NextTrack]_vars

(* ---------------------------------------------------------------------- *)
(* SpecSched: page-level effects under every scheduler, with the clock      *)
(* ---------------------------------------------------------------------- *)
OptionsSched ==
    {Undefined,
     OptionsArg(<<>>, <<>>, <<>>, <<"sync">>),
     OptionsArg(<<1>>, <<>>, <<>>, <<>>),
     OptionsArg(<<>>, <<ThrottleMs>>, <<>>, <<"post">>),
     OptionsArg(<<0>>, <<0>>, <<TRUE>>, <<>>),
     OptionsArg(<<1>>, <<ThrottleMs>>, <<>>, <<>>),
     OptionsArg(<<1>>, <<>>, <<TRUE>>, <<>>),
     OptionsArg(<<>>, <<ThrottleMs>>, <<TRUE>>, <<"sync">>),
     OptionsArg(<<1>>, <<ThrottleMs>>, <<TRUE>>, <<>>),
     OptionsArg(<<-1>>, <<>>, <<>>, <<>>)}

DepsSched == {<<>>, <<1>>, <<1, NumSignals>>}

InitSched ==
    /\ InitWorld
    /\ fnBody = AsTuple([f \in Fns |-> [act |-> "none", tgt |-> 0]])
    /\ payload = [exprs |-> <<>>, comps |-> <<>>, signals |-> AsTuple([i \in Sigs |-> i])]

NextSched ==
    \/ \E options \in OptionsSched : ZenEffectCall(FunctionArg(Reads(<<1>>)), options)
    \/ \E deps \in DepsSched :
          \/ ZeneffectCall(ArrayArg(deps), FunctionArg(Reads(<<1>>)))
          \/ ZeneffectCall(FunctionArg(Reads(<<1>>)), ArrayArg(deps))
    \/ \E e \in 1..MaxEffects : Dispose(e)
    \/ Unmount
    \/ \E x \in Renderable : Set(1, x)
    \/ Flush
    \/ TimerFires
    \/ Tick

SpecSched == InitSched /\ [][NextSched]_vars

(* ---------------------------------------------------------------------- *)
(* SpecScope: component scopes with mounts and effects registered on them   *)
(* ---------------------------------------------------------------------- *)
InitScope == InitTrack

NextScope ==
    \/ CreateScope
    \/ \E s \in 1..(1 + MaxScopes) : Activate(s)
    \/ \E s \in 1..(1 + MaxScopes) : DisposeScope(s)
    \/ \E s \in 1..(1 + MaxScopes) : ZenMountOn(s)
    \/ \E s \in 1..(1 + MaxScopes), brittle \in BOOLEAN : ZeneffectOn(s, brittle)
    \/ \E e \in 1..MaxEffects : DisposeHandle(e)
    \/ Flush

SpecScope == InitScope /\ [][NextScope]_vars

(* ---------------------------------------------------------------------- *)
(* SpecVal: hydrate's validation of the marker, expression and signal tables *)
(* ---------------------------------------------------------------------- *)
Identity(n) == AsTuple([i \in 1..n |-> i - 1])

TablePermutations(n) ==
    {t \in [1..n -> 0..(n - 1)] : \A i, j \in 1..n : t[i] = t[j] => i = j}

(* the tables in order, permuted, or in order with one entry replaced *)
Tables(n) ==
    TablePermutations(n) \cup {[Identity(n) EXCEPT ![k] = v] : k \in 1..n, v \in (-1)..n}

RawPayloads ==
    UNION {{[expressions |-> e, markers |-> m, signals |-> sg] :
               e \in Tables(n), m \in Tables(n),
               sg \in UNION {Tables(k) : k \in 0..MaxTable}} : n \in 0..MaxTable}

InitVal ==
    /\ InitWorld
    /\ fnBody = AsTuple([f \in Fns |-> [act |-> "none", tgt |-> 0]])
    /\ payload \in RawPayloads

NextVal == ValidatePayload

SpecVal == InitVal /\ [][NextVal]_vars

(* ---------------------------------------------------------------------- *)
(* C1: a set(x) with Object.is(current, x), NaN over NaN included, invokes *)
(* no subscriber and leaves the stored value unchanged.                    *)
(* ---------------------------------------------------------------------- *)
C1_EqualityGate ==
    (lastOp.op = "set" /\ lastOp.prev = lastOp.arg)
        => (Events(trace, "call") = <<>> /\ sigValue[lastOp.sig] = lastOp.prev)

C1_Witness ==
    /\ lastOp.op = "set"
    /\ lastOp.arg = "NaN"
    /\ lastOp.prev = "NaN"
    /\ lastOp.subs # <<>>

(* ---------------------------------------------------------------------- *)
(* C2: a value-changing set invokes exactly the functions subscribed when  *)
(* the pass began, each once, in subscription order, whatever the          *)
(* subscribers subscribe or unsubscribe during the pass.                   *)
(* ---------------------------------------------------------------------- *)
C2_SnapshotPass ==
    (lastOp.op = "set" /\ lastOp.prev # lastOp.arg)
        => LET calls == Events(trace, "call") IN
           /\ Len(calls) = Len(lastOp.subs)
           /\ \A i \in 1..Len(calls) :
                /\ calls[i].cb = lastOp.subs[i]
                /\ calls[i].sig = lastOp.sig

C2_Witness ==
    /\ lastOp.op = "set"
    /\ lastOp.prev # lastOp.arg
    /\ Len(lastOp.subs) >= 2
    /\ Range(subscribers[1]) # Range(lastOp.subs)

(* ---------------------------------------------------------------------- *)
(* What the payload says about a signal object, read off the tables        *)
(* ---------------------------------------------------------------------- *)
NamesSignal(p, m, o) ==
    \/ (p.exprs[m].k = "signal" /\ p.signals[p.exprs[m].signal_index] = o)
    \/ (p.exprs[m].k = "fn" /\ \E j \in DOMAIN p.exprs[m].signal_indices :
                                  p.signals[p.exprs[m].signal_indices[j]] = o)

NamesBinding(p, m, o) ==
    /\ p.exprs[m].k = "component"
    /\ p.exprs[m].c \in DOMAIN p.comps
    /\ p.signals[p.comps[p.exprs[m].c].prop] = o

DependsOn(p, m, o) == NamesSignal(p, m, o) \/ NamesBinding(p, m, o)

BoundToMarker(p, o) == \E m \in DOMAIN p.exprs : DependsOn(p, m, o)

PassedToComponent(p, o) == \E c \in DOMAIN p.comps : p.signals[p.comps[c].prop] = o

(* the dependency-map entries that lead to the object: by signal id, by binding *)
MapEntries(p, o) ==
    (IF \E m \in DOMAIN p.exprs : NamesSignal(p, m, o) THEN 1 ELSE 0)
    + (IF \E m \in DOMAIN p.exprs : NamesBinding(p, m, o) THEN 1 ELSE 0)

MarkerSubscriptions(o) == SelectSeq(subscribers[o], LAMBDA cb : cb.k = "dep")

EngineSubscribes(o) ==
    Len(SelectSeq(Events(trace, "subscribe"), LAMBDA ev : ev.sig = o /\ ev.cb.k = "dep"))

IsWrite == lastOp.op \in {"set", "click"} /\ lastOp.prev # lastOp.arg

MarkersOf(tr, kind) == AsTuple([i \in DOMAIN Events(tr, kind) |-> Events(tr, kind)[i].m])

ExpectedRenders(p, o) ==
    SortedSeq({m \in DOMAIN p.exprs : NamesSignal(p, m, o)})
    \o SortedSeq({m \in DOMAIN p.exprs : NamesBinding(p, m, o)})

RECURSIVE SumWrites(_, _)
SumWrites(p, S) ==
    IF S = {} THEN 0
    ELSE LET o == CHOOSE o \in S : TRUE
         IN tally.nWrites[o] + SumWrites(p, S \ {o})

(* ---------------------------------------------------------------------- *)
(* C3 as stated: after the k-th consecutive hydrate every signal bound to  *)
(* a marker has exactly one active marker subscription, from k subscribe   *)
(* and k-1 unsubscribe calls, and none after a final unmount.              *)
(* ---------------------------------------------------------------------- *)
C3_OneSubscriptionPerSignal ==
    /\ tally.mounted =>
          \A o \in Sigs : BoundToMarker(payload, o) =>
             /\ Len(MarkerSubscriptions(o)) = 1
             /\ tally.subCalls[o] = tally.run
             /\ tally.unsubCalls[o] = tally.run - 1
    /\ ~tally.mounted => \A o \in Sigs : MarkerSubscriptions(o) = <<>>

(* ---------------------------------------------------------------------- *)
(* C3 amended: after the k-th consecutive hydrate every signal has exactly *)
(* one active marker subscription per dependency-map entry that leads to   *)
(* it (its signal id, its component binding), each from k subscribe and    *)
(* k-1 unsubscribe calls, and none after a final unmount.                  *)
(* ---------------------------------------------------------------------- *)
C3_OneSubscriptionPerEntry ==
    /\ tally.mounted =>
          \A o \in Sigs :
             /\ Len(MarkerSubscriptions(o)) = MapEntries(payload, o)
             /\ tally.subCalls[o] = tally.run * MapEntries(payload, o)
             /\ tally.unsubCalls[o] = (tally.run - 1) * MapEntries(payload, o)
    /\ ~tally.mounted =>
          \A o \in Sigs : /\ MarkerSubscriptions(o) = <<>>
                          /\ tally.subCalls[o] = tally.unsubCalls[o]

C3_Witness ==
    /\ tally.mounted
    /\ tally.run >= 2
    /\ \E o \in Sigs : MapEntries(payload, o) = 1 /\ tally.unsubCalls[o] = tally.run - 1

(* ---------------------------------------------------------------------- *)
(* C4: after unmount() no listener is registered or attached, and a later  *)
(* write to a signal does not touch the DOM and does not throw.            *)
(* ---------------------------------------------------------------------- *)
C4_UnmountedIsInert ==
    ~tally.mounted =>
        /\ listeners = <<>>
        /\ nodeListeners = {}
        /\ lastOp.op \in {"set", "flush"} =>
              /\ error = "none"
              /\ Events(trace, "eval") = <<>>
              /\ Events(trace, "write") = <<>>
              /\ Events(trace, "hostWrite") = <<>>

C4_Witness ==
    /\ ~tally.mounted
    /\ gen >= 1
    /\ lastOp.op = "set"
    /\ lastOp.arg \in NonRenderable
    /\ BoundToMarker(payload, lastOp.sig)
    /\ PassedToComponent(payload, lastOp.sig)
    /\ \E m \in DOMAIN payload.exprs : payload.exprs[m].k = "event"

(* ---------------------------------------------------------------------- *)
(* C5: a cleanup() directly after a cleanup() is a no-op (runs no          *)
(* disposer, removes no listener, changes nothing, throws nothing), and a  *)
(* cleanup() before the first hydrate does not throw.                      *)
(* ---------------------------------------------------------------------- *)
C5_CleanupIdempotent ==
    [][ /\ (lastOp.op = "cleanup" /\ lastOp'.op = "cleanup") =>
              /\ trace' = <<>>
              /\ error' = "none"
              /\ UNCHANGED <<sigValue, subscribers, dom, hostDom, cleaned, disposers,
                             listeners, nodeListeners, scopes, globalScope, effects,
                             microtasks>>
        /\ (gen = 0 /\ lastOp'.op = "cleanup") => error' = "none" ]_vars

C5_Witness ==
    /\ lastOp.op = "cleanup"
    /\ tally.cleanupsInRow = 2
    /\ gen >= 1

(* ---------------------------------------------------------------------- *)
(* C7: a value-changing write to a bound signal evaluates and writes       *)
(* exactly the markers that depend on it, each once, in registration       *)
(* order, and no other marker.                                             *)
(* ---------------------------------------------------------------------- *)
C7_OnlyAffectedMarkers ==
    (tally.mounted /\ IsWrite) =>
        /\ MarkersOf(trace, "eval") = ExpectedRenders(payload, lastOp.sig)
        /\ MarkersOf(trace, "write") = ExpectedRenders(payload, lastOp.sig)

C7_Witness ==
    /\ tally.mounted
    /\ IsWrite
    /\ Len(ExpectedRenders(payload, lastOp.sig)) = 1
    /\ \E m \in DOMAIN payload.exprs :
          /\ payload.exprs[m].k # "event"
          /\ ~DependsOn(payload, m, lastOp.sig)

(* ---------------------------------------------------------------------- *)
(* C8 as stated: one hydrate calls subscribe exactly once on each signal   *)
(* object that markers or components depend on.                            *)
(* ---------------------------------------------------------------------- *)
C8_OncePerSignalObject ==
    lastOp.op = "hydrate" =>
        \A o \in Sigs :
            (BoundToMarker(payload, o) \/ PassedToComponent(payload, o))
                => EngineSubscribes(o) = 1

(* ---------------------------------------------------------------------- *)
(* C8 amended: one hydrate calls subscribe once per dependency-map entry:  *)
(* once per signal id that marker expressions name and once per distinct   *)
(* component-binding object that marker expressions name, however many     *)
(* markers or component instances share it.                                *)
(* ---------------------------------------------------------------------- *)
C8_OncePerMapEntry ==
    lastOp.op = "hydrate" =>
        \A o \in Sigs : EngineSubscribes(o) = MapEntries(payload, o)

C8_Witness ==
    /\ lastOp.op = "hydrate"
    /\ \E m1, m2 \in DOMAIN payload.exprs :
          /\ NamesBinding(payload, m1, 1)
          /\ NamesBinding(payload, m2, 1)
          /\ payload.exprs[m1].c # payload.exprs[m2].c
    /\ EngineSubscribes(1) = 1

(* ---------------------------------------------------------------------- *)
(* C9: marker re-rendering is never coalesced: every value-changing write  *)
(* re-renders each dependent marker once before it returns, so n writes    *)
(* give n re-renders and the node shows the value just written.            *)
(* ---------------------------------------------------------------------- *)
C9_NeverCoalesced ==
    tally.mounted =>
        \A m \in DOMAIN payload.exprs : payload.exprs[m].k # "event" =>
            /\ tally.nRenders[m] =
                  SumWrites(payload, {o \in Sigs : DependsOn(payload, m, o)})
            /\ dom[m] = [j \in DOMAIN _evaluateExpression(World, payload.exprs[m]) |->
                            _coerceText(_evaluateExpression(World, payload.exprs[m])[j])]
            /\ (IsWrite /\ DependsOn(payload, m, lastOp.sig))
                  => Len(SelectSeq(Events(trace, "write"), LAMBDA ev : ev.m = m)) = 1

C9_Witness ==
    /\ tally.mounted
    /\ IsWrite
    /\ \E m \in DOMAIN payload.exprs :
          /\ tally.nRenders[m] >= 2
          /\ DependsOn(payload, m, lastOp.sig)

RunsOf(e) == Len(SelectSeq(Events(trace, "run"), LAMBDA ev : ev.e = e))

IsDefaultZenEffect(e) ==
    effects[e].kind = "auto" /\ effects[e].options = DEFAULT_EFFECT_OPTIONS

(* ---------------------------------------------------------------------- *)
(* C6: once a cleanup() / unmount() call has returned, every effect and    *)
(* mount registered on the global scope before it is disposed, holds no    *)
(* subscription, has no timer, frame or microtask that leads to a run,     *)
(* and its body does not run again.                                        *)
(* ---------------------------------------------------------------------- *)
C6_CleanupDisposesGlobalEffects ==
    \A e \in DOMAIN effects : effects[e].doomed =>
        /\ effects[e].disposed
        /\ effects[e].subs = <<>>
        /\ \A o \in Sigs : \A i \in DOMAIN subscribers[o] :
              ~(subscribers[o][i].k = "eff" /\ subscribers[o][i].e = e)
        /\ \A t \in timers : t.e # e
        /\ RunsOf(e) = 0

(* ---------------------------------------------------------------------- *)
(* C10: a zenEffect with default options does not run inside set(); the    *)
(* n >= 1 notifications it receives before the queued microtask runs       *)
(* cause exactly one re-run of its body.                                   *)
(* ---------------------------------------------------------------------- *)
C10_PostFlushCoalesces ==
    \A e \in DOMAIN effects : IsDefaultZenEffect(e) =>
        /\ lastOp.op = "set" => RunsOf(e) = 0
        /\ (lastOp.op = "flush" /\ lastOp.notes[e] >= 1) => RunsOf(e) = 1

C10_Witness ==
    /\ lastOp.op = "flush"
    /\ \E e \in DOMAIN effects :
          /\ IsDefaultZenEffect(e)
          /\ lastOp.notes[e] >= 2
          /\ RunsOf(e) = 1

(* ---------------------------------------------------------------------- *)
(* Reading the trace of one call: the runs of an effect, what each read,   *)
(* and the subscription calls that follow it                               *)
(* ---------------------------------------------------------------------- *)
IsSubscriptionCall(ev, e) ==
    /\ ev.ev \in {"subscribe", "unsubscribe"}
    /\ ev.cb.k = "eff"
    /\ ev.cb.e = e

(* <<i, j>>: a run of e that begins at trace[i] and returns at trace[j] *)
RunsIn(tr, e) ==
    {ij \in (DOMAIN tr) \X (DOMAIN tr) :
        /\ ij[1] < ij[2]
        /\ tr[ij[1]].ev = "run" /\ tr[ij[1]].e = e
        /\ tr[ij[2]].ev = "runEnd" /\ tr[ij[2]].e = e
        /\ \A k \in (ij[1] + 1)..(ij[2] - 1) : ~(tr[k].ev = "runEnd" /\ tr[k].e = e)}

CompletedRuns(tr, e) == {ij \in RunsIn(tr, e) : ~tr[ij[2]].threw}

(* the sources read while e was the active collector, between trace[i] and trace[j] *)
SourcesRead(tr, e, i, j) ==
    {tr[k].sig : k \in {k \in i..j : tr[k].ev = "get" /\ tr[k].collector = e}}

(* the last position of the subscription calls that directly follow trace[j] *)
ReconcileEnd(tr, j) ==
    CHOOSE m \in j..Len(tr) :
        /\ \A k \in (j + 1)..m : tr[k].ev \in {"subscribe", "unsubscribe"}
        /\ (m < Len(tr) => tr[m + 1].ev \notin {"subscribe", "unsubscribe"})

(* the sources e is subscribed to just before trace[i] *)
SubscribedBefore(tr, e, i) ==
    {o \in Sigs :
        LET calls == {k \in 1..(i - 1) : IsSubscriptionCall(tr[k], e) /\ tr[k].sig = o}
        IN IF calls = {}
           THEN e \in DOMAIN tally.pre.subs /\ o \in tally.pre.subs[e]
           ELSE tr[CHOOSE k \in calls : \A l \in calls : l <= k].ev = "subscribe"}

CallsOn(tr, e, kind, from, to) ==
    SelectSeq(SubSeq(tr, from, to), LAMBDA ev : ev.ev = kind /\ IsSubscriptionCall(ev, e))

(* ---------------------------------------------------------------------- *)
(* C11: after every completed run of a zenEffect the effect is subscribed  *)
(* to exactly the sources that run read: the sources no longer read are    *)
(* unsubscribed, the new ones are subscribed in ascending reactive-id      *)
(* order, and a source read in this run and the previous one keeps its     *)
(* single existing subscription (no unsubscribe or subscribe call on it).  *)
(* ---------------------------------------------------------------------- *)
C11_SubscriptionsFollowReads ==
    \A e \in DOMAIN effects : effects[e].kind = "auto" =>
        \A ij \in CompletedRuns(trace, e) :
            LET i == ij[1]
                j == ij[2]
                m == ReconcileEnd(trace, j)
                read == SourcesRead(trace, e, i, j)
                before == SubscribedBefore(trace, e, i)
                dropped == CallsOn(trace, e, "unsubscribe", j + 1, m)
                added == CallsOn(trace, e, "subscribe", j + 1, m)
            IN /\ {dropped[k].sig : k \in DOMAIN dropped} = before \ read
               /\ Len(dropped) = Cardinality(before \ read)
               /\ [k \in DOMAIN added |-> added[k].sig] = SortedSeq(read \ before)
               /\ \A k \in i..m : IsSubscriptionCall(trace[k], e) => trace[k].sig \notin (read \cap before)
               /\ SubscribedBefore(trace, e, m + 1) = read
               /\ \A o \in read :
                     Len(SelectSeq(subscribers[o], LAMBDA cb : cb.k = "eff" /\ cb.e = e)) = 1
                       \/ m < Len(trace)

(* the positions in the history of e where cleanup n of run k was invoked *)
InvokedAt(h, k, n) == {j \in DOMAIN h : h[j].t = "cleanup" /\ h[j].k = k /\ h[j].n = n}

(* ---------------------------------------------------------------------- *)
(* C12: every cleanup that run k of a zenEffect registers or returns is    *)
(* invoked exactly once: after it was registered, before the body of run   *)
(* k+1 begins, or at disposal if no further run happens; never twice.      *)
(* ---------------------------------------------------------------------- *)
C12_CleanupExactlyOnce ==
    \A e \in DOMAIN effects : effects[e].kind = "auto" =>
        LET h == effects[e].hist IN
        \A i \in DOMAIN h : h[i].t = "reg" =>
            LET invoked == InvokedAt(h, h[i].k, h[i].n) IN
            /\ Cardinality(invoked) <= 1
            /\ \A j \in invoked : j > i
            /\ \A r \in DOMAIN h :
                  (h[r].t = "run" /\ h[r].k = h[i].k + 1) => \E j \in invoked : j < r
            /\ effects[e].disposed => invoked # {}

(* the runs of auto-tracked effects that are open at trace[k] *)
OpenRunsAt(tr, k) ==
    {i \in 1..(k - 1) :
        /\ tr[i].ev = "run"
        /\ effects[tr[i].e].kind = "auto"
        /\ \A j \in (i + 1)..(k - 1) : ~(tr[j].ev = "runEnd" /\ tr[j].e = tr[i].e)}

(* the effect whose run is the innermost one open at trace[k], 0 if none is *)
InnermostAt(tr, k) ==
    LET open == OpenRunsAt(tr, k)
    IN IF open = {} THEN 0 ELSE tr[CHOOSE i \in open : \A l \in open : l <= i].e

(* the sources the run <<i, j>> of e read itself, not through a run inside it *)
DirectReads(tr, e, i, j) ==
    {tr[k].sig : k \in {k \in i..j : tr[k].ev = "get" /\ InnermostAt(tr, k) = e}}

(* ---------------------------------------------------------------------- *)
(* C19: when a run of one effect starts and ends inside a run of another,  *)
(* the reads of the inner run are recorded for the inner effect only, the  *)
(* reads of the outer run before and after it for the outer effect only;   *)
(* once a run has ended, normally or by throwing, the active collector is  *)
(* the one that was active before it started.                              *)
(* ---------------------------------------------------------------------- *)
C19_CollectorIsSavedAndRestored ==
    /\ collector = 0
    /\ \A k \in DOMAIN trace :
          trace[k].ev = "get" => trace[k].collector = InnermostAt(trace, k)
    /\ \A e \in DOMAIN effects : effects[e].kind = "auto" =>
          \A ij \in CompletedRuns(trace, e) :
              SubscribedBefore(trace, e, ReconcileEnd(trace, ij[2]) + 1)
                 = DirectReads(trace, e, ij[1], ij[2])

(* an inner run read a source inside an outer run, which read one before and after *)
C19_Witness ==
    \E outer \in DOMAIN effects, inner \in DOMAIN effects :
        /\ outer # inner
        /\ \E ij \in CompletedRuns(trace, outer), kl \in CompletedRuns(trace, inner) :
              /\ ij[1] < kl[1] /\ kl[2] < ij[2]
              /\ \E a \in (ij[1] + 1)..(kl[1] - 1) : trace[a].ev = "get"
              /\ \E b \in (kl[1] + 1)..(kl[2] - 1) : trace[b].ev = "get"
              /\ \E c \in (kl[2] + 1)..(ij[2] - 1) : trace[c].ev = "get"
              /\ DirectReads(trace, inner, kl[1], kl[2]) # DirectReads(trace, outer, ij[1], ij[2])

(* ---------------------------------------------------------------------- *)
(* C13: once the dispose handle of an effect, or the disposal of its       *)
(* scope, has returned, the body of the effect never runs again, even if   *)
(* a timer, an animation frame or a microtask for it was pending then.     *)
(* ---------------------------------------------------------------------- *)
C13_DisposedNeverRuns ==
    \A e \in tally.pre.dead : RunsOf(e) = 0

(* scheduled work of an effect disposed earlier came due and reached invokeNow *)
C13_Witness ==
    /\ lastOp.op \in {"flush", "timer"}
    /\ \E e \in tally.pre.dead :
          /\ effects[e].kind = "auto"
          /\ \E k \in DOMAIN trace : trace[k].ev = "invokeNow" /\ trace[k].e = e

(* ---------------------------------------------------------------------- *)
(* C16: zeneffect(deps, fn) with a non-empty dependency list runs fn once  *)
(* before zeneffect returns, then once for every notification from a       *)
(* dependency, and never after its dispose handle was called; an empty     *)
(* dependency list is rejected with an error.                              *)
(* ---------------------------------------------------------------------- *)
C16_RunsAtOnceAndOnEveryNotification ==
    /\ (lastOp.op = "zeneffect" /\ lastOp.a.t = "array") =>
          IF lastOp.a.deps = <<>>
          THEN error # "none" /\ Len(effects) = lastOp.e - 1
          ELSE /\ error = "none"
               /\ Len(effects) = lastOp.e
               /\ effects[lastOp.e].kind = "explicit"
               /\ RunsOf(lastOp.e) = 1
    /\ \A e \in DOMAIN effects : effects[e].kind = "explicit" =>
          /\ e \in tally.pre.dead => RunsOf(e) = 0
          /\ (lastOp.op = "set" /\ e \notin tally.pre.dead) =>
                RunsOf(e) = Len(SelectSeq(Events(trace, "call"),
                                          LAMBDA ev : ev.cb.k = "eff" /\ ev.cb.e = e))

SchedulersAsked(options) ==
    IF options.t # "object" THEN 0
    ELSE (IF options.debounceMs # <<>> /\ options.debounceMs[1] > 0 THEN 1 ELSE 0)
           + (IF options.throttleMs # <<>> /\ options.throttleMs[1] > 0 THEN 1 ELSE 0)
           + (IF options.raf = <<TRUE>> THEN 1 ELSE 0)

C18_ConflictingSchedulersRejected ==
    (lastOp.op = "zenEffect" /\ "options" \in DOMAIN lastOp /\ SchedulersAsked(lastOp.options) > 1) =>
        /\ error = "OPTIONS_SCHEDULER"
        /\ Len(effects) = lastOp.e - 1
        /\ trace = <<>>
        /\ subscribers = lastOp.subscribers
        /\ scopes[globalScope].disposers = lastOp.disposers
        /\ microtasks = lastOp.microtasks

(* the call with all three schedulers set threw, next to an effect made earlier *)
C18_Witness ==
    /\ lastOp.op = "zenEffect"
    /\ "options" \in DOMAIN lastOp
    /\ SchedulersAsked(lastOp.options) = 3
    /\ error # "none"
    /\ Len(effects) = 1

Reverse(seq) == AsTuple([i \in DOMAIN seq |-> seq[Len(seq) + 1 - i]])

(* ---------------------------------------------------------------------- *)
(* C15: disposing a scope invokes every disposer registered on it exactly  *)
(* once, in reverse registration order; a disposer that throws neither     *)
(* keeps the remaining ones from being invoked nor makes the call throw.   *)
(* ---------------------------------------------------------------------- *)
C15_DisposersReverseOrderNoThrow ==
    lastOp.op = "disposeScope" =>
        LET invoked == Events(trace, "disposer")
            expected == IF lastOp.disposed \/ lastOp.s = globalScope THEN <<>>
                        ELSE Reverse(lastOp.disposers)
        IN /\ [i \in DOMAIN invoked |-> invoked[i].d] = expected
           /\ error = "none"
           /\ lastOp.s # globalScope => scopes[lastOp.s].disposed /\ scopes[lastOp.s].disposers = <<>>

(* two disposers, the one invoked first threw *)
C15_Witness ==
    /\ lastOp.op = "disposeScope"
    /\ Len(lastOp.disposers) = 2
    /\ Len(Events(trace, "disposer")) = 2
    /\ \E k \in DOMAIN trace :
          /\ trace[k].ev = "disposerThrew"
          /\ trace[k].d = lastOp.disposers[2]
          /\ \E l \in (k + 1)..Len(trace) : trace[l].ev = "disposer"

IsPermuted(table) == table \in TablePermutations(Len(table)) /\ table # Identity(Len(table))

(* ---------------------------------------------------------------------- *)
(* C20: hydrate throws an 'out of order' error for every payload, valid    *)
(* otherwise, in which the marker table, the expression table or the       *)
(* signal table is a non-identity permutation: some position i has         *)
(* markers[i].index # i, expressions[i].marker_index # i or                *)
(* signals[i].id # i.                                                      *)
(* ---------------------------------------------------------------------- *)
C20_PermutedTablesOutOfOrder ==
    (/\ lastOp.op = "validate"
     /\ payload.expressions \in TablePermutations(Len(payload.expressions))
     /\ payload.markers \in TablePermutations(Len(payload.markers))
     /\ payload.signals \in TablePermutations(Len(payload.signals))
     /\ \/ IsPermuted(payload.expressions)
        \/ IsPermuted(payload.markers)
        \/ IsPermuted(payload.signals))
    => Contains(error, "out of order")

(* only the signal table, the last one checked, is permuted, past its first position *)
C20_Witness ==
    /\ lastOp.op = "validate"
    /\ payload.expressions = Identity(MaxTable)
    /\ payload.markers = Identity(MaxTable)
    /\ IsPermuted(payload.signals)
    /\ payload.signals[1] = 0
    /\ Contains(error, "signal table out of order at position 1")

(* ---------------------------------------------------------------------- *)
(* state.js: one state() container.  A JavaScript value is a primitive or  *)
(* a reference into the heap; an object has a prototype, the frozen flag   *)
(* and two own properties (the elements 0 and 1 of an array)               *)
(* ---------------------------------------------------------------------- *)

Obj(proto, a, b) == [proto |-> proto, frozen |-> FALSE, a |-> a, b |-> b]

(* the objects reachable from a set of references, cycles included *)
RECURSIVE ReachFrom(_, _)
ReachFrom(h, refs) ==
    LET next == refs \cup {h[r].a.r : r \in refs} \cup {h[r].b.r : r \in refs}
        live == next \ {0}
    IN IF live = refs THEN refs ELSE ReachFrom(h, live)

Reach(h, v) == IF v.r = 0 THEN {} ELSE ReachFrom(h, {v.r})

(* function isPlainObject(value) *)
isPlainObject(h, value) == value.r # 0 /\ h[value.r].proto = "Object"

IsArray(h, value) == value.r # 0 /\ h[value.r].proto = "Array"

(* Object.freeze(value): a primitive is returned as it is *)
ObjectFreeze(w, value) ==
    IF value.r = 0 THEN w ELSE [w EXCEPT !.heap[value.r].frozen = TRUE]

(* { ...a, ...b }: a new plain object with the own properties of a, then of b *)
Spread(h, a, b) ==
    LET own(v, k) == IF v.r = 0 THEN Absent ELSE h[v.r][k]
        pick(k) == IF own(b, k) # Absent THEN own(b, k) ELSE own(a, k)
    IN Obj("Object", pick("a"), pick("b"))

(* cloneSnapshot(value): the clone is the newest object of the heap *)
cloneSnapshot(w, value) ==
    IF IsArray(w.heap, value) \/ isPlainObject(w.heap, value)
    THEN [w EXCEPT !.heap = Append(@, [@[value.r] EXCEPT !.frozen = FALSE])]
    ELSE w

Cloned(h, value) == IF IsArray(h, value) \/ isPlainObject(h, value) THEN Ref(Len(h) + 1) ELSE value

(* let current = Object.freeze(cloneSnapshot(initialValue)) *)
state(w, initialValue) ==
    [ObjectFreeze(cloneSnapshot(w, initialValue), Cloned(w.heap, initialValue))
        EXCEPT !.sigValue[1] = Cloned(w.heap, initialValue)]

(* get() *)
StateGetValue(w) == Log(w, [ev |-> "return", v |-> w.sigValue[1]])

(* const nextValue = typeof nextPatch === 'function' ? nextPatch(current)   *)
(*                                                  : { ...current, ...nextPatch } *)
(* an updater is known by what it returns: "prev" for prev => prev           *)
ResolveNext(w, nextPatch) ==
    IF nextPatch.t = "function"
    THEN Log(w, [ev |-> "resolved",
                 v |-> IF nextPatch.ret = Prim("prev") THEN w.sigValue[1] ELSE nextPatch.ret])
    ELSE Log([w EXCEPT !.heap = Append(@, Spread(w.heap, w.sigValue[1], nextPatch.v))],
             [ev |-> "resolved", v |-> Ref(Len(w.heap) + 1)])

Resolved(w) == Events(w.trace, "resolved")[1].v

RECURSIVE NotifyState(_, _, _)
NotifyState(w, snapshot, i) ==
    IF i > Len(snapshot) THEN w
    ELSE NotifyState(Log(w, [ev |-> "call", cb |-> snapshot[i], arg |-> w.sigValue[1]]),
                     snapshot, i + 1)

(* current = nextSnapshot, the loop over the subscribers, return current *)
Commit(w, nextSnapshot) ==
    IF w.sigValue[1] = nextSnapshot THEN Log(w, [ev |-> "return", v |-> w.sigValue[1]])
    ELSE StateGetValue(NotifyState([w EXCEPT !.sigValue[1] = nextSnapshot],
                                   w.subscribers[1], 1))

(* set(nextPatch) from the check of nextValue on *)
StoreNext(w, nextValue) ==
    IF nextValue.r = 0 \/ IsArray(w.heap, nextValue)
    THEN [w EXCEPT !.error = "STATE_SET_PLAIN_OBJECT"]
    ELSE Commit(ObjectFreeze(cloneSnapshot(w, nextValue), Cloned(w.heap, nextValue)),
                Cloned(w.heap, nextValue))

StoreResolved(w) == StoreNext(w, Resolved(w))

(* set(nextPatch) *)
StateSetValue(w, nextPatch) == StoreResolved(ResolveNext(w, nextPatch))

(* the page assigns to property a of an object it holds; the runtime's *)
(* modules are strict code, where a write to a frozen object throws    *)
AssignProperty(w, r) ==
    IF w.heap[r].frozen THEN [w EXCEPT !.error = "TypeError"]
    ELSE [w EXCEPT !.heap[r].a = Prim("mutated")]

(* the objects the page holds before it makes the container: a plain object *)
(* and an object nested in it that points back, an array, a Date            *)
PageHeap ==
    <<Obj("Object", Prim("one"), Ref(2)),
      Obj("Object", Prim("pz"), Ref(1)),
      Obj("Array", Prim("one"), Ref(2)),
      Obj("Date", Absent, Absent)>>

Initializers == {Prim("undefined"), Prim("five"), Ref(1), Ref(3), Ref(4)}

Patches ==
    {[t |-> "object", v |-> Ref(2)], [t |-> "object", v |-> Prim("undefined")]}
    \cup {[t |-> "function", ret |-> v] :
             v \in {Prim("prev"), Prim("five"), Ref(1), Ref(3), Ref(4)}}

InitState ==
    /\ InitRuntime
    /\ doc = NoDocument
    /\ heap = PageHeap
    /\ sigValue = AsTuple([o \in Sigs |-> Absent])
    /\ fnBody = AsTuple([f \in Fns |-> [act |-> "none", tgt |-> 0]])
    /\ payload = [exprs |-> <<>>, comps |-> <<>>, signals |-> AsTuple([i \in Sigs |-> i])]

(* const store = state(initialValue) *)
StateCall(initialValue) ==
    /\ sigValue[1] = Absent
    /\ Apply(state(Begin(World, [op |-> "state", arg |-> initialValue]), initialValue))

StateGet ==
    /\ sigValue[1] # Absent
    /\ Apply(StateGetValue(Begin(World, [op |-> "get"])))

StateSet(nextPatch) ==
    /\ sigValue[1] # Absent
    /\ tally.writes < MaxWrites
    /\ Apply(StateSetValue(Begin([World EXCEPT !.tally.writes = @ + 1],
                                 [op |-> "set", arg |-> nextPatch, prev |-> sigValue[1],
                                  subs |-> subscribers[1]]),
                           nextPatch))

StateSubscribe(f) ==
    /\ sigValue[1] # Absent
    /\ Apply(subscribe(Begin(World, [op |-> "subscribe", sig |-> 1, fn |-> f]), 1, UserFn(f)))

(* the page writes to an object reachable from the snapshot it was handed *)
PageAssigns(r) ==
    /\ r \in Reach(heap, sigValue[1])
    /\ lastOp.op \in {"get", "set"}
    /\ heap[r].a # Prim("mutated")
    /\ Apply(AssignProperty(Begin(World, [op |-> "assign", r |-> r, held |-> sigValue[1]]), r))

NextState ==
    \/ \E v \in Initializers : StateCall(v)
    \/ StateGet
    \/ \E p \in Patches : StateSet(p)
    \/ \E f \in Fns : StateSubscribe(f)
    \/ \E r \in DOMAIN heap : PageAssigns(r)

SpecState == InitState /\ [][NextState]_vars

(* the values a call handed to the page: what it returned, what it passed *)
(* to a subscriber                                                        *)
HandedOut(tr) ==
    {tr[k].v : k \in {j \in DOMAIN tr : tr[j].ev = "return"}}
        \cup {tr[k].arg : k \in {j \in DOMAIN tr : tr[j].ev = "call"}}

(* ---------------------------------------------------------------------- *)
(* C28: state.set is a no-op when the resolved next snapshot is the        *)
(* current one: set(prev => prev) notifies no subscriber and get()         *)
(* afterwards returns the same reference as before the call.               *)
(* ---------------------------------------------------------------------- *)
C28_SetOfSameSnapshotIsNoOp ==
    (lastOp.op = "set" /\ lastOp.arg = [t |-> "function", ret |-> Prim("prev")])
        => (Events(trace, "call") = <<>> /\ sigValue[1] = lastOp.prev)

(* ---------------------------------------------------------------------- *)
(* C29: every snapshot handed out by a state (returned by get(), returned  *)
(* by set(), passed to a subscriber) is deeply frozen: every object        *)
(* reachable from it, through cycles too, is frozen, and a write to one    *)
(* fails.                                                                  *)
(* ---------------------------------------------------------------------- *)
C29_SnapshotsDeeplyFrozen ==
    /\ \A v \in HandedOut(trace) : \A r \in Reach(heap, v) : heap[r].frozen
    /\ lastOp.op = "assign" => (error = "TypeError" /\ heap[lastOp.r].a # Prim("mutated"))

(* ---------------------------------------------------------------------- *)
(* C30: state(initial) rejects an initializer that is neither a plain      *)
(* object nor an array; set throws exactly when the resolved next value is *)
(* neither a plain object nor an array; when set throws, the snapshot is   *)
(* unchanged and no subscriber is notified.                                *)
(* ---------------------------------------------------------------------- *)
C30_OnlyPlainObjectsAndArrays ==
    /\ lastOp.op = "state" =>
          (error # "none" <=> ~(isPlainObject(PageHeap, lastOp.arg) \/ IsArray(PageHeap, lastOp.arg)))
    /\ lastOp.op = "set" =>
          /\ error # "none" <=> ~(isPlainObject(heap, Resolved(World)) \/ IsArray(heap, Resolved(World)))
          /\ error # "none" => (sigValue[1] = lastOp.prev /\ Events(trace, "call") = <<>>)

(* ---------------------------------------------------------------------- *)
(* hydrate.js: the events table, the handler wrapper, the Escape dispatcher *)
(* ---------------------------------------------------------------------- *)

(* The page: marker index i is carried by node i + 1, one more element lies *)
(* outside every marked node; doc.parent[n] = Body for a child of the body. *)
NodeOf(index) == index + 1
Outside == NumMarkers + 1
Body == 0
NoElement == 0 - 1

(* node.contains(other) *)
RECURSIVE NodeContains(_, _, _)
NodeContains(d, node, other) ==
    IF other = node THEN TRUE
    ELSE IF other \notin DOMAIN d.parent THEN FALSE
    ELSE NodeContains(d, node, d.parent[other])

(* what handler.call(this, event) does: it returns, or it throws a value *)
Returns == [threw |-> FALSE, zenith |-> FALSE, code |-> "", phase |-> "", message |-> ""]
ThrowsError(message) ==
    [threw |-> TRUE, zenith |-> FALSE, code |-> "", phase |-> "", message |-> message]
ThrowsZenith(code, phase) ==
    [threw |-> TRUE, zenith |-> TRUE, code |-> code, phase |-> phase, message |-> ""]

(* diagnostics.js: _mapLegacyError(error, fallback), its code and phase *)
_mapLegacyError(thrown, fallback) ==
    IF Contains(thrown.message, "failed to resolve expression literal")
    THEN [code |-> "UNRESOLVED_EXPRESSION", phase |-> "bind"]
    ELSE IF Contains(thrown.message, "non-renderable object")
            \/ Contains(thrown.message, "non-renderable function")
    THEN [code |-> "NON_RENDERABLE_VALUE", phase |-> "render"]
    ELSE IF Contains(thrown.message, "unresolved ")
            /\ Contains(thrown.message, " marker index")
    THEN [code |-> "MARKER_MISSING", phase |-> "bind"]
    ELSE fallback

(* diagnostics.js: rethrowZenithRuntimeError(error, fallback), the code and *)
(* phase of the zenithRuntimeError payload of what it throws                *)
Rethrown(thrown, fallback) ==
    IF thrown.zenith THEN [code |-> thrown.code, phase |-> thrown.phase]
    ELSE _mapLegacyError(thrown, fallback)

Throw(w, p) ==
    [Log(w, [ev |-> "threw", code |-> p.code, phase |-> p.phase]) EXCEPT !.error = p.code]

(* hydrate.js 418-431: wrappedHandler of events[i], called on `node` *)
wrappedHandler(w, i, node, outcome) ==
    IF outcome.threw
    THEN Throw(Log(w, [ev |-> "handler", i |-> i, node |-> node]),
               Rethrown(outcome, [code |-> "EVENT_HANDLER_FAILED", phase |-> "event"]))
    ELSE Log(w, [ev |-> "handler", i |-> i, node |-> node])

Max(S) == CHOOSE x \in S : \A y \in S : y <= x
Min(S) == CHOOSE x \in S : \A y \in S : x <= y

(* a dispatcher that falls back to the oldest connected entry *)
TargetEntryOldest(d, entries) ==
    LET within == {i \in DOMAIN entries : entries[i].node \in d.connected
                                            /\ NodeContains(d, entries[i].node, d.activeElement)}
        live == {i \in DOMAIN entries : entries[i].node \in d.connected}
    IN IF d.activeElement \notin {NoElement, Body} /\ within # {} THEN Max(within)
       ELSE IF d.activeElement \in {NoElement, Body} /\ live # {} THEN Min(live)
       ELSE 0

(* hydrate.js 452-482: the position of targetEntry in escDispatchEntries, 0 = null *)
TargetEntry(d, entries) ==
    LET within == {i \in DOMAIN entries : entries[i].node \in d.connected
                                            /\ NodeContains(d, entries[i].node, d.activeElement)}
        live == {i \in DOMAIN entries : entries[i].node \in d.connected}
    IN IF d.activeElement \notin {NoElement, Body} /\ within # {} THEN Max(within)
       ELSE IF d.activeElement \in {NoElement, Body} /\ live # {} THEN Max(live)
       ELSE 0

DispatchTo(w, entries, t, outcome) ==
    IF t = 0 THEN w ELSE wrappedHandler(w, entries[t].ev, entries[t].node, outcome)

(* hydrate.js 447-488: escDispatchListener *)
zenithEscDispatch(w, entries, key, outcome) ==
    IF key # "Escape" THEN w
    ELSE DispatchTo(w, entries, TargetEntry(w.doc, entries), outcome)

NodeListener(node, type, i, g) ==
    [on |-> "node", node |-> node, type |-> type, ev |-> i, gen |-> g, entries |-> <<>>]

DocumentListener(entries, g) ==
    [on |-> "document", node |-> Body, type |-> "keydown", ev |-> 0, gen |-> g,
     entries |-> entries]

(* target.addEventListener(type, l) and _registerListener(target, type, l) *)
AddListener(w, l) ==
    _registerListener(Log([w EXCEPT !.nodeListeners = @ \cup {l}],
                          [ev |-> "addListener", l |-> l]), l)

(* an esc binding that also gets a listener on its own node *)
RECURSIVE AddEscNodeListeners(_, _, _)
AddEscNodeListeners(w, entries, i) ==
    IF i > Len(entries) THEN w
    ELSE AddEscNodeListeners(
            AddListener(w, NodeListener(entries[i].node, "esc", entries[i].ev, w.gen)),
            entries, i + 1)

RegisterEscPerNode(w, escDispatchEntries) ==
    IF escDispatchEntries = <<>> THEN w
    ELSE AddListener(AddEscNodeListeners(w, escDispatchEntries, 1),
                     DocumentListener(escDispatchEntries, w.gen))

(* hydrate.js 444-491: one document keydown listener if there is any esc entry *)
RegisterEscDispatch(w, escDispatchEntries) ==
    IF escDispatchEntries = <<>> THEN w
    ELSE AddListener(w, DocumentListener(escDispatchEntries, w.gen))

(* hydrate.js 383-442: the loop over the events table *)
RECURSIVE BindEventTable(_, _, _)
BindEventTable(w, i, escDispatchEntries) ==
    IF w.error # "none" THEN w
    ELSE IF i > Len(w.payload.events) THEN RegisterEscDispatch(w, escDispatchEntries)
    ELSE IF \E j \in 1..(i - 1) : w.payload.events[j].index = w.payload.events[i].index
    THEN Rethrow(w, "[Zenith Runtime] duplicate event index "
                        \o ToString(w.payload.events[i].index))
    ELSE IF NodeOf(w.payload.events[i].index) \notin w.doc.connected
    THEN Throw(w, [code |-> "MARKER_MISSING", phase |-> "bind"])
    ELSE IF w.payload.exprs[w.payload.events[i].index + 1].k # "event"
    THEN Throw(w, [code |-> "BINDING_APPLY_FAILED", phase |-> "bind"])
    ELSE IF w.payload.events[i].event = "esc"
    THEN BindEventTable(w, i + 1,
                        Append(escDispatchEntries,
                               [node |-> NodeOf(w.payload.events[i].index), ev |-> i]))
    ELSE BindEventTable(
            AddListener(w, NodeListener(NodeOf(w.payload.events[i].index),
                                        w.payload.events[i].event, i, w.gen)),
            i + 1, escDispatchEntries)

(* hydrate.js 626-640: the loop of _validatePayload over the events table *)
ValidateEvents(p) ==
    IF \E i \in DOMAIN p.events :
          p.events[i].index < 0 \/ p.events[i].index >= Len(p.expressions)
    THEN "[Zenith Runtime] event binding at position "
            \o ToString(Min({i \in DOMAIN p.events :
                                p.events[i].index < 0
                                \/ p.events[i].index >= Len(p.expressions)}) - 1)
            \o " has out-of-bounds index"
    ELSE ""

(* hydrate.js 503-769: _validatePayload with ir_version, events, params, ssr_data *)
ValidateContract(p) ==
    IF p.ir_version # 1 THEN "[Zenith Runtime] unsupported ir_version (expected 1)"
    ELSE IF _validatePayload([expressions |-> p.expressions, markers |-> p.markers,
                              signals |-> <<>>]) # ""
    THEN _validatePayload([expressions |-> p.expressions, markers |-> p.markers,
                           signals |-> <<>>])
    ELSE IF ValidateEvents(p) # "" THEN ValidateEvents(p)
    ELSE IF ValidateSignals(AsTuple([i \in DOMAIN p.signals |-> p.signals[i] - 1])) # ""
    THEN ValidateSignals(AsTuple([i \in DOMAIN p.signals |-> p.signals[i] - 1]))
    ELSE IF p.params \notin {"undefined", "object"}
    THEN "[Zenith Runtime] hydrate() requires params object"
    ELSE IF p.ssr_data \notin {"undefined", "object"}
    THEN "[Zenith Runtime] hydrate() requires ssr_data object"
    ELSE ""

(* hydrate.js 204-491, the try block after validation *)
HydrateEventsFrom(w0) ==
    BindEventTable(
        SubscribeMap(SubscribeMap(InitialRender(InstantiateComponents(w0, 1), 1), "signal"),
                     "component"),
        1, <<>>)

(* ---------------------------------------------------------------------- *)
(* hydrate.js: freezing the payload, binding the refs                      *)
(* ---------------------------------------------------------------------- *)
IsFunction(h, value) == value.r # 0 /\ h[value.r].proto = "Function"

IsArrayValue(h, value) == value.r # 0 /\ h[value.r].proto = "Array"

(* typeof value.get === 'function' && typeof value.subscribe === 'function' *)
IsSignalLike(h, value) ==
    /\ IsFunction(h, PropOf(h, value, "get"))
    /\ IsFunction(h, PropOf(h, value, "subscribe"))

(* Object.freeze(value) *)
Freeze(w, value) ==
    IF value.r = 0 THEN w ELSE [w EXCEPT !.heap[value.r].frozen = TRUE]

(* function _isPlainObject(value) *)
_isPlainObject(h, value) == value.r # 0 /\ h[value.r].proto = "Object"

(* function _isHydrationRefObject(obj) *)
_isHydrationRefObject(h, obj) ==
    IF obj.r = 0 \/ IsFunction(h, obj) THEN FALSE
    ELSE IF PropOf(h, obj, "__zenith_ref") = Prim("true") THEN TRUE
    ELSE IF ~HasOwn(h[obj.r], "current") THEN FALSE
    ELSE IF IsSignalLike(h, obj) THEN FALSE
    ELSE IF h[obj.r].keys = <<"current">> THEN TRUE
    ELSE /\ Len(h[obj.r].keys) = 2
         /\ HasOwn(h[obj.r], "current")
         /\ HasOwn(h[obj.r], "__zenith_ref")

(* function _isHydrationFreezableContainer(value) *)
_isHydrationFreezableContainer(h, value) ==
    IF IsArrayValue(h, value) THEN TRUE
    ELSE IF ~_isPlainObject(h, value) THEN FALSE
    ELSE IF _isHydrationRefObject(h, value) THEN FALSE
    ELSE ~IsSignalLike(h, value)

(* function _deepFreezePayload(obj) *)
RECURSIVE _deepFreezePayload(_, _)
RECURSIVE FreezeValues(_, _, _)
FreezeValues(w, r, i) ==
    IF i > Len(w.heap[r].vals) THEN w
    ELSE FreezeValues(
            IF w.heap[r].vals[i].r # 0 /\ ~IsFunction(w.heap, w.heap[r].vals[i])
            THEN _deepFreezePayload(w, w.heap[r].vals[i]) ELSE w,
            r, i + 1)

_deepFreezePayload(w, obj) ==
    IF ~_isHydrationFreezableContainer(w.heap, obj) \/ w.heap[obj.r].frozen THEN w
    ELSE FreezeValues(Freeze(w, obj), obj.r, 1)

(* for (let i = 0; i < table.length; i++) Object.freeze(table[i]) *)
RECURSIVE FreezeEntries(_, _, _)
FreezeEntries(w, table, i) ==
    IF table.r = 0 THEN w
    ELSE IF i > Len(w.heap[table.r].vals) THEN w
    ELSE FreezeEntries(Freeze(w, w.heap[table.r].vals[i]), table, i + 1)

(* hydrate.js 728-738: one props descriptor and the container it carries *)
FreezePropDesc(w, propDesc) ==
    Freeze(IF propDesc.r # 0 /\ ~IsFunction(w.heap, propDesc)
              /\ _isHydrationFreezableContainer(w.heap, PropOf(w.heap, propDesc, "value"))
           THEN Freeze(w, PropOf(w.heap, propDesc, "value")) ELSE w,
           propDesc)

RECURSIVE FreezeProps(_, _, _)
FreezeProps(w, props, j) ==
    IF j > Len(w.heap[props.r].vals) THEN w
    ELSE FreezeProps(FreezePropDesc(w, w.heap[props.r].vals[j]), props, j + 1)

(* hydrate.js 725-742: one component entry *)
FreezeComponent(w, c) ==
    IF IsArrayValue(w.heap, PropOf(w.heap, c, "props"))
    THEN Freeze(Freeze(FreezeProps(w, PropOf(w.heap, c, "props"), 1),
                       PropOf(w.heap, c, "props")), c)
    ELSE Freeze(w, c)

RECURSIVE FreezeComponents(_, _, _)
FreezeComponents(w, components, i) ==
    IF components.r = 0 THEN w
    ELSE IF i > Len(w.heap[components.r].vals) THEN w
    ELSE FreezeComponents(FreezeComponent(w, w.heap[components.r].vals[i]), components, i + 1)

(* Array.isArray(payload.refs) ? payload.refs : [] and the like *)
TableOf(h, p, key) == IF IsArrayValue(h, PropOf(h, p, key)) THEN PropOf(h, p, key) ELSE Prim("undefined")

(* hydrate.js 720-749: the end of _validatePayload *)
FreezeTables(w, p) ==
    Freeze(Freeze(Freeze(Freeze(Freeze(Freeze(
        FreezeComponents(
            FreezeEntries(FreezeEntries(FreezeEntries(FreezeEntries(FreezeEntries(w,
                TableOf(w.heap, p, "expressions"), 1),
                TableOf(w.heap, p, "markers"), 1),
                TableOf(w.heap, p, "events"), 1),
                TableOf(w.heap, p, "refs"), 1),
                TableOf(w.heap, p, "signals"), 1),
            TableOf(w.heap, p, "components"), 1),
        TableOf(w.heap, p, "expressions")),
        TableOf(w.heap, p, "markers")),
        TableOf(w.heap, p, "events")),
        TableOf(w.heap, p, "refs")),
        TableOf(w.heap, p, "signals")),
        TableOf(w.heap, p, "components"))

(* the payload object is the first object of the heap; a specification     *)
(* that leaves the heap empty does not follow the payload's objects        *)
ThePayload == Ref(1)

(* hydrate.js 153-154: _validatePayload's freezes, then _deepFreezePayload *)
FreezePayload(w) ==
    IF w.heap = <<>> THEN w
    ELSE _deepFreezePayload(FreezeTables(w, ThePayload), ThePayload)

(* stateValues[refBinding.state_index] for each entry of the refs table *)
RefTargets(h) ==
    IF h = <<>> \/ TableOf(h, ThePayload, "refs").r = 0 THEN <<>>
    ELSE [i \in DOMAIN h[TableOf(h, ThePayload, "refs").r].vals |->
            PropOf(h, PropOf(h, ThePayload, "state_values"),
                   PropOf(h, h[TableOf(h, ThePayload, "refs").r].vals[i], "state_index").p)]

(* hydrate.js 187-194: targetRef.current = nodes[0] || null *)
RECURSIVE AssignRefs(_, _, _)
AssignRefs(w, targets, i) ==
    IF i > Len(targets) \/ w.error # "none" THEN w
    ELSE AssignRefs(Log(SetCurrent(w, targets[i], Prim("node")), [ev |-> "ref", i |-> i]),
                    targets, i + 1)

RethrowTypeError(w) ==
    IF w.error = "TypeError"
    THEN Rethrow(w, "Cannot assign to read only property 'current' of object")
    ELSE w

(* hydrate.js 186-202: the refs loop and the disposer that clears the refs *)
BindRefs(w) ==
    IF RefTargets(w.heap) = <<>> THEN w
    ELSE RethrowTypeError(
            _registerDisposerUnlessThrown(AssignRefs(w, RefTargets(w.heap), 1),
                                          [k |-> "refs", refs |-> RefTargets(w.heap)]))

HydrateBound(w) == IF w.error # "none" THEN w ELSE HydrateEventsFrom(w)

(* hydrate.js 152-500: the try block and its catch *)
HydrateValidated(w) ==
    IF ValidateContract(w.payload) # "" THEN Rethrow(w, ValidateContract(w.payload))
    ELSE HydrateBound(BindRefs(FreezePayload(w)))

(* hydrate(payload) for a payload with an events table *)
hydrateEvents(w) == HydrateValidated([cleanup(w) EXCEPT !.gen = @ + 1])

(* the listeners a dispatch reaches, in the order they were added *)
ListenerOrder(l) == l.gen * (MaxEvents + 1) + l.ev

InvokeListener(w, l, key, outcome) ==
    IF l.on = "document" THEN zenithEscDispatch(w, l.entries, key, outcome)
    ELSE wrappedHandler(w, l.ev, l.node, outcome)

RECURSIVE DispatchEvent(_, _, _, _)
DispatchEvent(w, ls, key, outcome) ==
    IF ls = {} THEN w
    ELSE DispatchEvent(
            InvokeListener(w, CHOOSE l \in ls : \A x \in ls : ListenerOrder(l) <= ListenerOrder(x),
                           key, outcome),
            ls \ {CHOOSE l \in ls : \A x \in ls : ListenerOrder(l) <= ListenerOrder(x)},
            key, outcome)

(* the node with everything below it *)
Subtree(d, n) == {x \in DOMAIN d.parent : NodeContains(d, n, x)}

(* ---------------------------------------------------------------------- *)
(* SpecEvt: payloads with an events table on a page with nested nodes      *)
(* ---------------------------------------------------------------------- *)
EventTables ==
    UNION {[1..n -> [index : 0..(NumMarkers - 1), event : {"click", "esc"}]] :
             n \in 0..MaxEvents}

EventExprs == {AsTuple([m \in Markers |-> [k |-> "event", sets |-> 1]]),
               AsTuple([m \in Markers |-> IF m = 1 THEN [k |-> "signal", signal_index |-> 1]
                                  ELSE [k |-> "event", sets |-> 1]])}

ContractPayload(exprs, events) ==
    [exprs |-> exprs, comps |-> <<[prop |-> 1, uses |-> "none"]>>,
     signals |-> AsTuple([i \in Sigs |-> i]), ir_version |-> 1,
     expressions |-> Identity(NumMarkers), markers |-> Identity(NumMarkers),
     events |-> events, params |-> "object", ssr_data |-> "undefined"]

(* one departure from the contract each *)
Drifts(p) ==
    {[p EXCEPT !.ir_version = 2], [p EXCEPT !.ir_version = 0],
     [p EXCEPT !.markers = SubSeq(@, 1, NumMarkers - 1)],
     [p EXCEPT !.expressions[1] = 1], [p EXCEPT !.expressions[NumMarkers] = 0],
     [p EXCEPT !.markers[1] = 1], [p EXCEPT !.markers[NumMarkers] = NumMarkers],
     [p EXCEPT !.events[1].index = NumMarkers],
     [p EXCEPT !.params = "array"], [p EXCEPT !.ssr_data = "null"]}

PayloadsEvt ==
    {ContractPayload(x, t) : x \in EventExprs, t \in EventTables}
    \cup UNION {Drifts(ContractPayload(x, <<[index |-> NumMarkers - 1, event |-> "click"]>>)) :
                  x \in EventExprs}

(* the marked nodes side by side, or one inside the other; the outside *)
(* element is a child of the body                                      *)
Pages ==
    {AsTuple([n \in 1..Outside |-> Body])}
    \cup UNION {{AsTuple([n \in 1..Outside |-> IF n = a THEN b ELSE Body]) :
                    b \in {a - 1, a + 1} \cap (1..NumMarkers)} : a \in 1..NumMarkers}

HandlerOutcomes ==
    {Returns, ThrowsError("boom"), ThrowsError("non-renderable object at user.profile"),
     ThrowsZenith("NON_RENDERABLE_VALUE", "render")}

InitEvt ==
    /\ InitRuntime
    /\ sigValue = AsTuple([o \in Sigs |-> "pz"])
    /\ heap = <<>>
    /\ fnBody = AsTuple([f \in Fns |-> [act |-> "none", tgt |-> 0]])
    /\ payload \in PayloadsEvt
    /\ \E page \in Pages :
          doc = [activeElement |-> Body, connected |-> 1..Outside, parent |-> page]

HydrateEvents ==
    /\ gen < MaxHydrates
    /\ Apply(hydrateEvents(Begin(World, [op |-> "hydrate"])))

(* the user or the page moves the focus *)
Focus(a) ==
    /\ a \in {NoElement, Body} \cup doc.connected
    /\ a # doc.activeElement
    /\ Apply(Begin([World EXCEPT !.doc.activeElement = a], [op |-> "focus", a |-> a]))

(* the page removes a node; a focus inside it goes back to the body *)
Detach(n) ==
    /\ n \in doc.connected
    /\ Apply(Begin([World EXCEPT !.doc.connected = @ \ Subtree(doc, n),
                                 !.doc.activeElement =
                                     IF @ \in Subtree(doc, n) THEN Body ELSE @],
                   [op |-> "detach", n |-> n]))

(* document.dispatchEvent(new KeyboardEvent('keydown', { key })) *)
Keydown(key, outcome) ==
    Apply(DispatchEvent(Begin(World, [op |-> "keydown", key |-> key, outcome |-> outcome]),
                        {l \in nodeListeners : l.on = "document" /\ l.type = "keydown"},
                        key, outcome))

(* node.click() *)
ClickNode(n, outcome) ==
    /\ \E l \in nodeListeners : l.on = "node" /\ l.node = n /\ l.type = "click"
    /\ Apply(DispatchEvent(Begin(World, [op |-> "click", n |-> n, outcome |-> outcome]),
                           {l \in nodeListeners : l.on = "node" /\ l.node = n
                                                   /\ l.type = "click"},
                           "", outcome))

NextEvt ==
    \/ HydrateEvents
    \/ Unmount
    \/ \E a \in (0 - 1)..Outside : Focus(a)
    \/ \E n \in 1..NumMarkers : Detach(n)
    \/ \E outcome \in HandlerOutcomes : Keydown("Escape", outcome)
    \/ Keydown("Enter", Returns)
    \/ \E n \in 1..Outside, outcome \in HandlerOutcomes : ClickNode(n, outcome)

SpecEvt == InitEvt /\ [][NextEvt]_vars

(* ---------------------------------------------------------------------- *)
(* Properties of the events table and the Escape dispatcher (SpecEvt)      *)
(* ---------------------------------------------------------------------- *)

(* the payload departs from the contract in one of the listed ways *)
ContractDrift(p) ==
    \/ p.ir_version # 1
    \/ Len(p.markers) # Len(p.expressions)
    \/ \E i \in DOMAIN p.expressions : p.expressions[i] # i - 1
    \/ \E i \in DOMAIN p.markers : p.markers[i] # i - 1
    \/ \E i \in DOMAIN p.events : p.events[i].index \notin 0..(Len(p.expressions) - 1)
    \/ \E i, j \in DOMAIN p.events : i # j /\ p.events[i].index = p.events[j].index
    \/ p.params \notin {"undefined", "object"}
    \/ p.ssr_data \notin {"undefined", "object"}

(* the esc bindings the document listener of the current mount dispatches to *)
EscWithin(l) ==
    {i \in DOMAIN l.entries : /\ l.entries[i].node \in doc.connected
                              /\ NodeContains(doc, l.entries[i].node, doc.activeElement)}

EscLive(l) == {i \in DOMAIN l.entries : l.entries[i].node \in doc.connected}

EscapeReached(l) ==
    /\ l.on = "document"
    /\ lastOp.op = "keydown"
    /\ lastOp.key = "Escape"

(* C21 as stated: when the payload departs from the contract (ir_version   *)
(* other than 1, marker/expression count mismatch, a duplicate or          *)
(* out-of-order index, an out-of-bounds marker or event index, malformed   *)
(* params or ssr_data), hydrate throws and has by then created no          *)
(* component, applied no marker value, subscribed to no signal and added   *)
(* no listener.                                                            *)
C21_ContractDriftThrowsBeforeAnySideEffect ==
    (lastOp.op = "hydrate" /\ ContractDrift(payload)) =>
        /\ error # "none"
        /\ \A k \in DOMAIN trace :
              trace[k].ev \notin {"create", "mount", "write", "subscribe", "addListener"}

(* C23: after a hydrate that returned, the m esc bindings of the payload    *)
(* share one keydown listener on the document when m >= 1 and there is     *)
(* none when m = 0, no esc binding has a listener on its own node, and     *)
(* after cleanup() no document listener is left.                           *)
C23_OneDocumentListenerForAllEscBindings ==
    /\ (lastOp.op = "hydrate" /\ error = "none") =>
          /\ Cardinality({l \in nodeListeners : l.on = "document"})
                = IF \E i \in DOMAIN payload.events : payload.events[i].event = "esc"
                  THEN 1 ELSE 0
          /\ \A l \in nodeListeners :
                IF l.on = "document"
                THEN /\ l.type = "keydown"
                     /\ {l.entries[k].ev : k \in DOMAIN l.entries}
                          = {i \in DOMAIN payload.events : payload.events[i].event = "esc"}
                ELSE payload.events[l.ev].event # "esc"
          /\ \A l \in nodeListeners : \E k \in DOMAIN listeners : listeners[k] = l
    /\ lastOp.op = "cleanup" => nodeListeners = {}

C23_Witness ==
    /\ lastOp.op = "hydrate"
    /\ error = "none"
    /\ Cardinality({i \in DOMAIN payload.events : payload.events[i].event = "esc"}) = 2
    /\ Cardinality(nodeListeners) = 1
    /\ \A l \in nodeListeners : l.on = "document" /\ Len(l.entries) = 2

(* C24 as stated: on an Escape keydown, when the nodes of several          *)
(* connected esc bindings contain the focused element, exactly one handler *)
(* runs and it belongs to the innermost of those nodes, whatever the order *)
(* in which the bindings were registered.                                  *)
C24_InnermostEscBindingHandlesEscape ==
    \A l \in nodeListeners :
        (EscapeReached(l) /\ Cardinality(EscWithin(l)) >= 2) =>
            /\ Len(Events(trace, "handler")) = 1
            /\ \A i \in EscWithin(l) :
                  NodeContains(doc, l.entries[i].node, Events(trace, "handler")[1].node)

(* C25 as stated: on an Escape keydown, when no esc binding's node          *)
(* contains the focused element, the handler of the most recently          *)
(* registered binding whose node is connected runs, and no handler of a    *)
(* disconnected node runs.                                                 *)
C25_EscFallsBackWheneverFocusIsOutside ==
    \A l \in nodeListeners :
        EscapeReached(l) =>
            /\ \A k \in DOMAIN Events(trace, "handler") :
                  Events(trace, "handler")[k].node \in doc.connected
            /\ (EscWithin(l) = {} /\ EscLive(l) # {}) =>
                  /\ Len(Events(trace, "handler")) = 1
                  /\ Events(trace, "handler")[1].i = l.entries[Max(EscLive(l))].ev

(* C25, amended: on an Escape keydown with no esc binding around the focus, *)
(* the most recently registered binding whose node is connected handles    *)
(* the key when the focus is on the body or on nothing; when the focus is  *)
(* on another element no handler runs; no handler of a disconnected node   *)
(* ever runs.                                                              *)
C25_EscFallsBackOnlyFromBodyOrNoFocus ==
    \A l \in nodeListeners :
        EscapeReached(l) =>
            /\ \A k \in DOMAIN Events(trace, "handler") :
                  Events(trace, "handler")[k].node \in doc.connected
            /\ EscWithin(l) = {} =>
                  IF doc.activeElement \in {NoElement, Body} /\ EscLive(l) # {}
                  THEN /\ Len(Events(trace, "handler")) = 1
                       /\ Events(trace, "handler")[1].i = l.entries[Max(EscLive(l))].ev
                  ELSE Events(trace, "handler") = <<>>

C25_Witness ==
    \E l \in nodeListeners :
        /\ EscapeReached(l)
        /\ doc.activeElement = Body
        /\ Len(l.entries) = 2
        /\ EscLive(l) = {1}
        /\ Len(Events(trace, "handler")) = 1
        /\ Events(trace, "handler")[1].i = l.entries[1].ev

(* C26 as stated: whatever a bound event handler throws, the wrapper        *)
(* surfaces a structured error with code EVENT_HANDLER_FAILED and phase    *)
(* event.                                                                  *)
C26_HandlerFailuresSurfaceAsEventHandlerFailed ==
    (/\ lastOp.op \in {"click", "keydown"}
     /\ lastOp.outcome.threw
     /\ Events(trace, "handler") # <<>>) =>
        /\ Len(Events(trace, "threw")) = Len(Events(trace, "handler"))
        /\ \A k \in DOMAIN Events(trace, "threw") :
              /\ Events(trace, "threw")[k].code = "EVENT_HANDLER_FAILED"
              /\ Events(trace, "threw")[k].phase = "event"

(* ---------------------------------------------------------------------- *)
(* SpecFreeze: hydrate over a payload whose objects are followed           *)
(* ---------------------------------------------------------------------- *)
(* where the shared function, the two state values and the nested object *)
(* stand in the heap                                                      *)
TheFunction == Ref(15)
SlotOne == Ref(19)
SlotTwo == Ref(20)
Nested == Ref(21)

ValueShapes == {"ref", "markedRef", "labelledRef", "signal", "host", "data", "function"}

(* the object a state_values slot holds *)
ValueObject(shape) ==
    CASE shape = "ref"         -> PObj("Object", <<"current">>, <<Prim("null")>>)
      [] shape = "markedRef"   -> PObj("Object", <<"current", "__zenith_ref">>,
                                       <<Prim("null"), Prim("true")>>)
      [] shape = "labelledRef" -> PObj("Object", <<"current", "label">>,
                                       <<Prim("null"), Prim("dialog")>>)
      [] shape = "signal"      -> PObj("Object", <<"get", "set", "subscribe">>,
                                       <<TheFunction, TheFunction, TheFunction>>)
      [] shape = "host"        -> PObj("HTMLElement", <<>>, <<>>)
      [] shape = "data"        -> PObj("Object", <<"user">>, <<Nested>>)
      [] OTHER                 -> PObj("Object", <<>>, <<>>)

SlotValue(shape, slot) == IF shape = "function" THEN TheFunction ELSE slot

(* the payload of a page with one click binding, one component with a      *)
(* static prop and two state values, with or without a refs table          *)
PayloadHeap(one, two, withRefs) ==
    <<PObj("Object",
           IF withRefs
           THEN <<"expressions", "markers", "events", "state_values", "signals",
                  "components", "refs">>
           ELSE <<"expressions", "markers", "events", "state_values", "signals",
                  "components">>,
           IF withRefs THEN <<Ref(2), Ref(3), Ref(4), Ref(5), Ref(6), Ref(7), Ref(8)>>
           ELSE <<Ref(2), Ref(3), Ref(4), Ref(5), Ref(6), Ref(7)>>),
      PObj("Array", <<"0">>, <<Ref(9)>>),
      PObj("Array", <<"0">>, <<Ref(10)>>),
      PObj("Array", <<"0">>, <<Ref(11)>>),
      PObj("Array", <<"0", "1">>, <<SlotValue(one, SlotOne), SlotValue(two, SlotTwo)>>),
      PObj("Array", <<"0">>, <<Ref(12)>>),
      PObj("Array", <<"0">>, <<Ref(13)>>),
      PObj("Array", <<"0">>, <<Ref(14)>>),
      PObj("Object", <<"marker_index", "state_index">>, <<Prim("0"), Prim("1")>>),
      PObj("Object", <<"index", "kind", "selector">>,
           <<Prim("0"), Prim("event"), Prim("[data-zx-on-click]")>>),
      PObj("Object", <<"index", "event", "selector">>,
           <<Prim("0"), Prim("click"), Prim("[data-zx-on-click]")>>),
      PObj("Object", <<"id", "kind", "state_index">>, <<Prim("0"), Prim("signal"), Prim("1")>>),
      PObj("Object", <<"instance", "selector", "create", "props">>,
           <<Prim("c0"), Prim("[data-zx-c]"), TheFunction, Ref(16)>>),
      PObj("Object", <<"index", "state_index", "selector">>,
           <<Prim("0"), Prim("0"), Prim("[data-zx-r]")>>),
      PObj("Function", <<>>, <<>>),
      PObj("Array", <<"0">>, <<Ref(17)>>),
      PObj("Object", <<"name", "type", "value">>, <<Prim("label"), Prim("static"), Ref(18)>>),
      PObj("Object", <<"text">>, <<Prim("ok")>>),
      ValueObject(one),
      ValueObject(two),
      PObj("Object", <<"name">>, <<Prim("Ada")>>)>>

InitFreeze ==
    /\ InitRuntime
    /\ sigValue = AsTuple([o \in Sigs |-> "pz"])
    /\ fnBody = AsTuple([f \in Fns |-> [act |-> "none", tgt |-> 0]])
    /\ payload = ContractPayload(AsTuple([m \in Markers |-> [k |-> "event", sets |-> 1]]),
                                 <<[index |-> 0, event |-> "click"]>>)
    /\ doc = [activeElement |-> Body, connected |-> 1..Outside,
              parent |-> AsTuple([n \in 1..Outside |-> Body])]
    /\ \E one \in ValueShapes, two \in ValueShapes, withRefs \in BOOLEAN :
          heap = PayloadHeap(one, two, withRefs)

(* obj.key = value, or array.push(value): a TypeError on a frozen object *)
WriteProperty(w, r) ==
    IF w.heap[r].frozen THEN [w EXCEPT !.error = "TypeError"]
    ELSE [w EXCEPT !.heap[r].keys = IF HasOwn(w.heap[r], "written") THEN @
                                     ELSE Append(@, "written"),
                   !.heap[r].vals = IF HasOwn(w.heap[r], "written") THEN @
                                     ELSE Append(@, Prim("true"))]

(* the page writes to an object of the payload after a hydrate call *)
PageWrites(r) ==
    /\ lastOp.op = "hydrate"
    /\ Apply(WriteProperty(Begin(World, [op |-> "write", r |-> r]), r))

NextFreeze ==
    \/ HydrateEvents
    \/ Unmount
    \/ \E r \in DOMAIN heap : PageWrites(r)

SpecFreeze == InitFreeze /\ [][NextFreeze]_vars

(* the objects of the payload by the part they play *)
TableArrays(h) ==
    {PropOf(h, ThePayload, key).r :
        key \in {"expressions", "markers", "events", "refs", "signals", "components",
                 "state_values"}} \ {0}

DescriptorEntries(h) ==
    UNION {{h[PropOf(h, ThePayload, key).r].vals[i].r :
               i \in DOMAIN h[PropOf(h, ThePayload, key).r].vals} :
             key \in {k \in {"expressions", "markers", "events", "refs", "signals",
                             "components"} : PropOf(h, ThePayload, k).r # 0}} \ {0}

StateValueObjects(h) ==
    {h[PropOf(h, ThePayload, "state_values").r].vals[i].r :
        i \in DOMAIN h[PropOf(h, ThePayload, "state_values").r].vals} \ {0}

(* C22 as stated: after hydrate returns, every table array of the payload   *)
(* and every entry object of its descriptor tables is frozen, while every  *)
(* object of state_values that has a `current` property, is a function or  *)
(* is a host object is left writable.                                      *)
C22_TablesFrozenRefsFunctionsHostsWritable ==
    (lastOp.op = "hydrate" /\ error = "none" /\ heap # <<>>) =>
        /\ \A r \in TableArrays(heap) \cup DescriptorEntries(heap) : heap[r].frozen
        /\ \A r \in StateValueObjects(heap) :
              (\/ "current" \in {heap[r].keys[i] : i \in DOMAIN heap[r].keys}
               \/ heap[r].proto \in {"Function", "HTMLElement"}) => ~heap[r].frozen

(* ---------------------------------------------------------------------- *)
(* SpecComp: component instances with effects and mounts of their own      *)
(* ---------------------------------------------------------------------- *)
ComponentUses == {"none", "zeneffect", "zenMount", "both"}

(* n instances built by the same factory, with or without mount() and destroy() *)
LifecycleTables ==
    {AsTuple([c \in 1..n |-> [prop |-> 1, uses |-> u, mount |-> m, destroy |-> d]]) :
        n \in Comps, u \in ComponentUses, m \in BOOLEAN, d \in BOOLEAN}

InitComp ==
    /\ InitRuntime
    /\ sigValue = AsTuple([o \in Sigs |-> "pz"])
    /\ heap = <<>>
    /\ fnBody = AsTuple([f \in Fns |-> [act |-> "none", tgt |-> 0]])
    /\ doc = [activeElement |-> Body, connected |-> 1..Outside,
              parent |-> AsTuple([n \in 1..Outside |-> Body])]
    /\ \E table \in LifecycleTables :
          payload = [ContractPayload(AsTuple([m \in Markers |-> [k |-> "literal"]]), <<>>)
                        EXCEPT !.comps = table]

NextComp ==
    \/ HydrateEvents
    \/ Unmount
    \/ \E x \in {"one", "two"} : Set(1, x)
    \/ Flush

SpecComp == InitComp /\ [][NextComp]_vars

(* the places in the trace of the last call where an event of a kind about *)
(* one component or one callback stands                                    *)
At(kind, key, id) == {k \in DOMAIN trace : trace[k].ev = kind /\ trace[k][key] = id}

MountsOf(s) == {e \in DOMAIN effects : effects[e].scope = s /\ effects[e].kind = "mount"}

(* C27: hydrate calls create once per component host, then mount() once if  *)
(* the instance has one, then makes the instance's scope ready, so that    *)
(* the zenMount callbacks of the instance run, once, after mount(); the    *)
(* hosts are instantiated in table order.  At cleanup each instance's      *)
(* scope is disposed with it: its effects are disposed and unsubscribed,   *)
(* its mount cleanups run, then destroy() is called once if the instance   *)
(* has one; instances go in reverse instantiation order and none is left   *)
(* behind.                                                                 *)
C27_ComponentLifecycleInOrder ==
    /\ (lastOp.op = "hydrate" /\ error = "none") =>
          \A c \in DOMAIN payload.comps :
             /\ Cardinality(At("create", "c", c)) = 1
             /\ Cardinality(At("mount", "c", c)) = IF payload.comps[c].mount THEN 1 ELSE 0
             /\ \A k \in At("create", "c", c), m \in At("mount", "c", c) : k < m
             /\ \A c2 \in DOMAIN payload.comps :
                   c < c2 => \A k \in At("create", "c", c) \cup At("mount", "c", c),
                                k2 \in At("create", "c", c2) : k < k2
             /\ \E j \in DOMAIN disposers :
                   /\ disposers[j].k = "component"
                   /\ disposers[j].c = c
                   /\ scopes[disposers[j].scope].mountReady
                   /\ ~scopes[disposers[j].scope].disposed
                   /\ (payload.comps[c].uses \in {"zenMount", "both"})
                         => MountsOf(disposers[j].scope) # {}
                   /\ \A e \in MountsOf(disposers[j].scope) :
                         /\ Cardinality(At("run", "e", e)) = 1
                         /\ \A r \in At("run", "e", e),
                               k \in At("create", "c", c) \cup At("mount", "c", c) : k < r
    /\ \A k \in DOMAIN trace :
          (trace[k].ev = "dispose" /\ trace[k].d.k = "component") =>
             /\ scopes[trace[k].d.scope].disposed
             /\ \A e \in DOMAIN effects :
                   effects[e].scope = trace[k].d.scope =>
                      /\ effects[e].disposed
                      /\ effects[e].subs = <<>>
                      /\ effects[e].runCleanups = <<>>
             /\ Cardinality(At("destroy", "c", trace[k].d.c))
                   = IF payload.comps[trace[k].d.c].destroy THEN 1 ELSE 0
             /\ \A j \in At("destroy", "c", trace[k].d.c) : k < j
             /\ \A e \in MountsOf(trace[k].d.scope) :
                   /\ \E i \in At("effectCleanup", "e", e) : k < i
                   /\ \A i \in At("effectCleanup", "e", e),
                         j \in At("destroy", "c", trace[k].d.c) : i < j
             /\ \A k2 \in DOMAIN trace :
                   (k < k2 /\ trace[k2].ev = "dispose" /\ trace[k2].d.k = "component")
                      => trace[k2].d.c < trace[k].d.c
    /\ \A s \in DOMAIN scopes :
          (scopes[s].label = "component" /\ ~scopes[s].disposed) =>
             \E j \in DOMAIN disposers :
                disposers[j].k = "component" /\ disposers[j].scope = s
    /\ lastOp.op = "cleanup" => disposers = <<>>

(* two instances with a mount callback each, torn down by an unmount *)
C27_Witness ==
    /\ lastOp.op = "cleanup"
    /\ Len(payload.comps) = 2
    /\ \A c \in DOMAIN payload.comps :
          /\ payload.comps[c].uses = "both"
          /\ payload.comps[c].mount
          /\ payload.comps[c].destroy
          /\ Cardinality(At("destroy", "c", c)) = 1
    /\ \A k \in At("destroy", "c", 2), k1 \in At("destroy", "c", 1) : k < k1
    /\ Len(Events(trace, "effectCleanup")) >= 2

(* ---------------------------------------------------------------------- *)
(* hydrate.js: _zenhtml, the builder of embedded-markup fragments          *)
(* ---------------------------------------------------------------------- *)
(* _ZENHTML_UNSAFE_TAG_RE = /<script[\s>]/i *)
_ZENHTML_UNSAFE_TAG_RE(text) ==
    \E i \in 1..Len(text) :
        /\ MatchesAt(text, i, "<script")
        /\ i + 7 <= Len(text)
        /\ (IsSpace(CharAt(text, i + 7)) \/ CharAt(text, i + 7) = ">")

(* _ZENHTML_EVENT_ATTR_RE = /\bon[a-z]+\s*=/i *)
_ZENHTML_EVENT_ATTR_RE(text) ==
    \E i \in 1..Len(text) :
        /\ i = 1 \/ ~IsWordChar(CharAt(text, i - 1))
        /\ MatchesAt(text, i, "on")
        /\ \E j \in (i + 2)..Len(text) : \E k \in (j + 1)..Len(text) :
              /\ \A x \in (i + 2)..j : IsLetter(CharAt(text, x))
              /\ \A x \in (j + 1)..(k - 1) : IsSpace(CharAt(text, x))
              /\ CharAt(text, k) = "="

(* _ZENHTML_JS_URL_RE = /javascript\s*:/i *)
_ZENHTML_JS_URL_RE(text) ==
    \E i \in 1..Len(text) :
        /\ MatchesAt(text, i, "javascript")
        /\ \E k \in (i + 10)..Len(text) :
              /\ \A x \in (i + 10)..(k - 1) : IsSpace(CharAt(text, x))
              /\ CharAt(text, k) = ":"

(* result.replace(/<\/script/gi, '<\\/script') *)
RECURSIVE EscapeScriptClose(_, _)
EscapeScriptClose(text, i) ==
    IF i > Len(text) THEN ""
    ELSE IF MatchesAt(text, i, "</script")
    THEN "<\\/" \o SubSeq(text, i + 2, i + 7) \o EscapeScriptClose(text, i + 8)
    ELSE CharAt(text, i) \o EscapeScriptClose(text, i + 1)

(* JavaScript values an interpolation can hold: t is what the tests of      *)
(* _zenhtml_coerce tell apart, s the text of a string, a number or the html *)
(* of a tagged fragment, items the elements of an array, keys the own keys  *)
(* of an object                                                            *)
HtmlValue(t, s) == [t |-> t, s |-> s, items |-> <<>>, keys |-> <<>>]
ObjectValue(keys) == [t |-> "object", s |-> "", items |-> <<>>, keys |-> keys]
ArrayValue(items) == [t |-> "array", s |-> "", items |-> items, keys |-> <<>>]

_ZENHTML_PROTO_KEYS == {"__proto__", "constructor", "prototype"}

(* what one call of _zenhtml_coerce gives: the text, or the message thrown *)
Text(s) == [text |-> s, thrown |-> ""]
Thrown(message) == [text |-> "", thrown |-> message]

(* _zenhtml_coerce(val, interpolationIndex) for a value that is no array *)
CoerceScalar(val, interpolationIndex) ==
    IF val.t \in {"null", "undefined", "false", "true"} THEN Text("")
    ELSE IF val.t \in {"string", "number", "fragment"} THEN Text(val.s)
    ELSE IF val.t = "object"
    THEN IF \E k \in DOMAIN val.keys : val.keys[k] \in _ZENHTML_PROTO_KEYS
         THEN Thrown("Embedded markup interpolation[" \o ToString(interpolationIndex)
                     \o "] contains forbidden key \""
                     \o val.keys[CHOOSE k \in DOMAIN val.keys :
                                    /\ val.keys[k] \in _ZENHTML_PROTO_KEYS
                                    /\ \A j \in 1..(k - 1) :
                                          val.keys[j] \notin _ZENHTML_PROTO_KEYS]
                     \o "\"")
         ELSE Thrown("Embedded markup interpolation[" \o ToString(interpolationIndex)
                     \o "] resolved to a non-renderable object")
    ELSE Thrown("Embedded markup interpolation[" \o ToString(interpolationIndex)
                \o "] resolved to type \"" \o val.t \o "\"")

(* the loop of _zenhtml_coerce over the elements of an array, from element j *)
RECURSIVE CoerceItems(_, _, _, _)
CoerceItems(items, j, interpolationIndex, out) ==
    IF j > Len(items) THEN Text(out)
    ELSE IF CoerceScalar(items[j], interpolationIndex).thrown # ""
    THEN CoerceScalar(items[j], interpolationIndex)
    ELSE CoerceItems(items, j + 1, interpolationIndex,
                     out \o CoerceScalar(items[j], interpolationIndex).text)

_zenhtml_coerce(val, interpolationIndex) ==
    IF val.t = "array" THEN CoerceItems(val.items, 1, interpolationIndex, "")
    ELSE CoerceScalar(val, interpolationIndex)

(* the loop of _zenhtml over the template's strings and the values between them *)
RECURSIVE Assemble(_, _, _, _)
Assemble(strings, values, i, result) ==
    IF i > Len(strings) THEN Text(result)
    ELSE IF i > Len(values) THEN Assemble(strings, values, i + 1, result \o strings[i])
    ELSE IF _zenhtml_coerce(values[i], i - 1).thrown # ""
    THEN _zenhtml_coerce(values[i], i - 1)
    ELSE Assemble(strings, values, i + 1,
                  result \o strings[i] \o _zenhtml_coerce(values[i], i - 1).text)

(* the three tests of the assembled html and the escape of what passes them *)
SanitizeAssembled(result) ==
    IF _ZENHTML_UNSAFE_TAG_RE(result)
    THEN Thrown("Embedded markup expression contains forbidden <script> tag")
    ELSE IF _ZENHTML_EVENT_ATTR_RE(result)
    THEN Thrown("Embedded markup expression contains inline event handler (on*=)")
    ELSE IF _ZENHTML_JS_URL_RE(result)
    THEN Thrown("Embedded markup expression contains javascript: URL")
    ELSE Text(EscapeScriptClose(result, 1))

Sanitized(assembled) ==
    IF assembled.thrown # "" THEN assembled ELSE SanitizeAssembled(assembled.text)

(* _zenhtml(strings, ...values): the html of the fragment, or the message thrown *)
_zenhtml(strings, values) == Sanitized(Assemble(strings, values, 1, ""))

(* ---------------------------------------------------------------------- *)
(* SpecHtml: compiler-emitted template literals handed to _zenhtml         *)
(* ---------------------------------------------------------------------- *)
TemplateStrings ==
    {"", "<p>", "</p>", "<a href=\"", "\">x</a>", "<b ", ">", "<script>", "<SCRIPT src=x>",
     "<script/src=x>", "<IMG OnError =x>", "<a href=\"JavaScript :x\">", "one", "</Script>"}

Interpolated ==
    {HtmlValue("string", "hi"), HtmlValue("string", "javascript:alert(1)"),
     HtmlValue("string", "onclick=go()"), HtmlValue("string", "<script\n>"),
     HtmlValue("string", "script"), HtmlValue("string", "</script>"),
     HtmlValue("number", "7"), HtmlValue("null", ""), HtmlValue("undefined", ""),
     HtmlValue("true", ""), HtmlValue("false", ""),
     HtmlValue("fragment", "<i>x</i>"), HtmlValue("fragment", "<script >"),
     HtmlValue("function", ""), HtmlValue("symbol", ""),
     ObjectValue(<<>>), ObjectValue(<<"a", "__proto__">>), ObjectValue(<<"__zenith_fragment">>),
     ArrayValue(<<HtmlValue("string", "<i>"), HtmlValue("fragment", "x</i>")>>),
     ArrayValue(<<HtmlValue("string", "hi"), ObjectValue(<<>>)>>),
     ArrayValue(<<HtmlValue("function", "")>>)}

(* a template literal with no or one interpolation *)
Templates ==
    {[strings |-> <<a>>, values |-> <<>>] : a \in TemplateStrings}
        \cup {[strings |-> <<a, b>>, values |-> <<v>>] :
                 a \in TemplateStrings, b \in {"", ">", "</p>"}, v \in Interpolated}

InitHtml ==
    /\ InitWorld
    /\ fnBody = AsTuple([f \in Fns |-> [act |-> "none", tgt |-> 0]])
    /\ payload \in Templates

HtmlResult(w, built) ==
    [w EXCEPT !.error = IF built.thrown = "" THEN "none" ELSE "NON_RENDERABLE_VALUE",
              !.lastOp = [op |-> "zenhtml", html |-> built.text, message |-> built.thrown]]

(* the evaluator calls __ZENITH_INTERNAL_ZENHTML on the template *)
Zenhtml ==
    /\ lastOp.op = "init"
    /\ Apply(HtmlResult(Begin(World, NoOp), _zenhtml(payload.strings, payload.values)))

NextHtml == Zenhtml

SpecHtml == InitHtml /\ [][NextHtml]_vars

(* what an HTML parser takes for the start tag of a script element: the tag  *)
(* name ends at white space, at a slash or at the closing bracket            *)
HasScriptTag(html) ==
    \E i \in 1..Len(html) :
        /\ MatchesAt(html, i, "<script")
        /\ i + 7 <= Len(html)
        /\ CharAt(html, i + 7) \in {" ", "\t", "\n", "\f", "/", ">"}

(* an attribute whose name starts with on, followed by its equals sign *)
HasInlineHandler(html) ==
    \E i \in 1..Len(html), k \in 1..Len(html) :
        /\ i + 2 < k
        /\ CharAt(html, k) = "="
        /\ i = 1 \/ ~IsWordChar(CharAt(html, i - 1))
        /\ FoldCase(CharAt(html, i)) = "o" /\ FoldCase(CharAt(html, i + 1)) = "n"
        /\ \E j \in (i + 2)..(k - 1) :
              /\ \A x \in (i + 2)..j : IsLetter(CharAt(html, x))
              /\ \A x \in (j + 1)..(k - 1) : CharAt(html, x) \in {" ", "\t", "\n", "\f", "\r"}

HasJavascriptUrl(html) ==
    \E i \in 1..Len(html), k \in 1..Len(html) :
        /\ i + 10 <= k
        /\ CharAt(html, k) = ":"
        /\ MatchesAt(html, i, "javascript")
        /\ \A x \in (i + 10)..(k - 1) : CharAt(html, x) \in {" ", "\t", "\n", "\f", "\r"}

(* the value is a plain object or a function and no tagged fragment *)
NotRenderable(v) == v.t \in {"object", "function"}

Interpolates(values, P(_)) ==
    \E i \in DOMAIN values :
        \/ P(values[i])
        \/ \E j \in DOMAIN values[i].items : P(values[i].items[j])

(* C31: a fragment that _zenhtml returns has no script tag, no inline on*=   *)
(* handler and no javascript: URL in its html, and none of its interpolated  *)
(* values is a plain object or a function; every such template throws.       *)
C31_NoFragmentWithForbiddenMarkup ==
    (lastOp.op = "zenhtml" /\ error = "none") =>
        /\ ~HasScriptTag(lastOp.html)
        /\ ~HasInlineHandler(lastOp.html)
        /\ ~HasJavascriptUrl(lastOp.html)
        /\ ~Interpolates(payload.values, NotRenderable)

(* ---------------------------------------------------------------------- *)
(* SpecReg: the page's own disposers in the cleanup registry                *)
(* ---------------------------------------------------------------------- *)
DisposerActs == {"return", "throw", "register", "cleanupOnce"}

InitReg ==
    /\ InitWorld
    /\ fnBody = AsTuple([f \in Fns |-> [act |-> "none", tgt |-> 0]])
    /\ payload = [comps |-> <<>>]

(* _registerDisposer(fn) for a new function of the page *)
RegisterDisposer(act) ==
    /\ Len(heap) < MaxDisposers
    /\ Apply(_registerDisposer(
                Begin([World EXCEPT !.heap = Append(@, FunctionObject(act))],
                      [op |-> "registerDisposer", fn |-> Len(heap) + 1]),
                [k |-> "page", fn |-> Len(heap) + 1]))

NextReg ==
    \/ \E act \in DisposerActs : RegisterDisposer(act)
    \/ Unmount

SpecReg == InitReg /\ [][NextReg]_vars

InRegistry(fn) == \E i \in DOMAIN disposers : disposers[i].k = "page" /\ disposers[i].fn = fn

(* C34: a function handed to _registerDisposer waits in the registry until   *)
(* the next cleanup(), which calls it exactly once; cleanup() calls the      *)
(* functions newest first and goes on after one of them threw.  This also    *)
(* covers functions that call cleanup() or _registerDisposer themselves.     *)
C34_EveryDisposerOnceNewestFirst ==
    /\ \A fn \in DOMAIN heap :
          heap[fn].calls = (IF InRegistry(fn) THEN 0 ELSE 1)
    /\ lastOp.op = "cleanup" =>
          \A k, l \in DOMAIN Events(trace, "pageDisposer") :
              k < l => Events(trace, "pageDisposer")[k].fn > Events(trace, "pageDisposer")[l].fn

(* ---------------------------------------------------------------------- *)
(* SpecAbort: payloads that pass validation and make hydrate throw later   *)
(* ---------------------------------------------------------------------- *)

(* components whose factory registers a zeneffect on the first signal or   *)
(* nothing, and whose mount() returns or throws                            *)
AbortTables ==
    UNION {{AsTuple([c \in 1..n |-> [prop |-> 1, uses |-> u, mountThrows |-> t[c]]]) :
               u \in {"none", "zeneffect"}, t \in [1..n -> BOOLEAN]} : n \in Comps}

(* with click bindings only *)
PayloadsAbort ==
    {[ContractPayload(x, t) EXCEPT !.comps = table] :
        x \in EventExprs, t \in {t \in EventTables : \A i \in DOMAIN t : t[i].event = "click"},
        table \in AbortTables}

InitAbort ==
    /\ InitRuntime
    /\ sigValue = AsTuple([o \in Sigs |-> "pz"])
    /\ heap = <<>>
    /\ fnBody = AsTuple([f \in Fns |-> [act |-> "none", tgt |-> 0]])
    /\ doc = [activeElement |-> Body, connected |-> 1..Outside,
              parent |-> AsTuple([n \in 1..Outside |-> Body])]
    /\ payload \in PayloadsAbort

NextAbort ==
    \/ HydrateEvents
    \/ Unmount
    \/ \E n \in 1..NumMarkers : Detach(n)
    \/ Set(1, "one")
    \/ Flush

SpecAbort == InitAbort /\ [][NextAbort]_vars

(* the last call was a hydrate() that threw after _validatePayload returned *)
HydrateAborted ==
    /\ lastOp.op = "hydrate"
    /\ error # "none"
    /\ ValidateContract(payload) = ""

(* what the call made is still in place when it throws *)
AbortKeepsWhatWasDone ==
    HydrateAborted =>
        /\ \A k \in DOMAIN trace :
              /\ trace[k].ev = "subscribe" =>
                    \E i \in DOMAIN subscribers[trace[k].sig] :
                        subscribers[trace[k].sig][i] = trace[k].cb
              /\ trace[k].ev = "addListener" =>
                    /\ trace[k].l \in nodeListeners
                    /\ \E i \in DOMAIN listeners : listeners[i] = trace[k].l
              /\ trace[k].ev = "write" => dom[trace[k].m] # <<"ssr">>
        /\ \A k \in DOMAIN trace : trace[k].ev \notin {"unsubscribe", "removeListener"}
              \/ \E j \in (k + 1)..Len(trace) : trace[j].ev = "resetGlobal"

(* the cleanup() or hydrate() after it leaves no subscriber and no listener *)
(* of the failed attempt behind                                             *)
TeardownAfterAbort ==
    (HydrateAborted /\ lastOp'.op \in {"cleanup", "hydrate"}) =>
        /\ \A o \in Sigs : \A i \in DOMAIN subscribers[o] :
              \A j \in DOMAIN subscribers'[o] : subscribers'[o][j] # subscribers[o][i]
        /\ nodeListeners \cap nodeListeners' = {}

(* C32: when hydrate() throws after validation the marker values written,   *)
(* the subscriptions and the listeners of that call stay as they are, and   *)
(* the next cleanup() or hydrate() removes every subscription and listener  *)
(* of the failed call.                                                      *)
C32_AbortedHydrateIsTornDownByNextCleanup ==
    []AbortKeepsWhatWasDone /\ [][TeardownAfterAbort]_vars

(* ---------------------------------------------------------------------- *)
(* SpecDeps: zeneffect with dependency arrays that hold a value without     *)
(* subscribe (written 0)                                                   *)
(* ---------------------------------------------------------------------- *)
DepsArrays == {<<1>>, <<1, NumSignals>>, <<0>>, <<1, 0>>, <<0, 1>>, <<NumSignals, 1, 0>>}

InitDeps == InitSched

NextDeps ==
    \/ \E deps \in DepsArrays : ZeneffectCall(ArrayArg(deps), FunctionArg(Reads(<<1>>)))
    \/ \E o \in Sigs : Set(o, "one")
    \/ Flush
    \/ Unmount

SpecDeps == InitDeps /\ [][NextDeps]_vars

(* the zeneffect call that made this effect threw at one of its dependencies *)
ThrewAtDependency(e) == \E i \in DOMAIN effects[e].reads : effects[e].reads[i] \notin Sigs

(* C36: a zeneffect(deps, fn) that throws because a dependency has no        *)
(* subscribe leaves no subscription on the dependencies before it, and fn    *)
(* never runs.                                                              *)
C36_FailedZeneffectLeavesNoSubscription ==
    \A e \in DOMAIN effects :
        ThrewAtDependency(e) =>
            /\ \A o \in Sigs : \A i \in DOMAIN subscribers[o] :
                  ~(subscribers[o][i].k = "eff" /\ subscribers[o][i].e = e)
            /\ \A k \in DOMAIN trace : ~(trace[k].ev = "runEnd" /\ trace[k].e = e)

(* ---------------------------------------------------------------------- *)
(* Properties of disposed effects (SpecTrack)                              *)
(* ---------------------------------------------------------------------- *)

(* C33: a disposed zenEffect is subscribed to no source and holds no cleanup *)
(* function waiting to be called, whatever the order of the calls, also     *)
(* when its own callback disposed it.                                       *)
C33_DisposedEffectHoldsNothing ==
    \A e \in DOMAIN effects :
        (effects[e].kind = "auto" /\ effects[e].disposed) =>
            /\ \A o \in Sigs : \A i \in DOMAIN subscribers[o] :
                  ~(subscribers[o][i].k = "eff" /\ subscribers[o][i].e = e)
            /\ effects[e].subs = <<>>
            /\ effects[e].runCleanups = <<>>

(* ---------------------------------------------------------------------- *)
(* Properties of the schedulers' deferred work (SpecSched)                  *)
(* ---------------------------------------------------------------------- *)

(* the timers and animation frames of the host that will call invokeNow of e *)
TimersOf(e) == {t \in timers : t.e = e}

(* the microtasks queued that will call invokeNow of e *)
MicrotasksOf(e) == {i \in DOMAIN microtasks : microtasks[i] = e}

Live(e) == ~effects[e].disposed /\ ~scopes[effects[e].scope].disposed

(* C37: for the scheduler of an effect that is not disposed, at most one     *)
(* deferred invocation (timer, animation frame or microtask) is outstanding, *)
(* and it is the one whose handle or flag the scheduler holds, so cancel()   *)
(* reaches it.                                                              *)
C37_OneDeferredInvocationKnownToCancel ==
    \A e \in DOMAIN effects :
        Live(e) =>
            /\ Cardinality(TimersOf(e)) + Cardinality(MicrotasksOf(e)) <= 1
            /\ \A t \in TimersOf(e) :
                  t.id \in {effects[e].debounceTimer, effects[e].throttleTimer,
                            effects[e].rafHandle}
            /\ MicrotasksOf(e) # {} => effects[e].microtaskQueued

(* ---------------------------------------------------------------------- *)
(* Properties of a write whose subscriber throws (SpecErr)                  *)
(* ---------------------------------------------------------------------- *)

(* the k-th subscriber of the written signal re-renders a marker, which     *)
(* throws on the value written                                              *)
RenderThrows(k) ==
    /\ lastOp.subs[k].k = "dep"
    /\ MarkerIndexes(payload, lastOp.subs[k]) # <<>>
    /\ lastOp.arg \in NonRenderable

(* the first subscriber of the pass that throws, 0 if none does *)
FirstThrower ==
    IF \E k \in DOMAIN lastOp.subs : RenderThrows(k)
    THEN CHOOSE k \in DOMAIN lastOp.subs :
            RenderThrows(k) /\ \A j \in 1..(k - 1) : ~RenderThrows(j)
    ELSE 0

(* C38: when a subscriber throws during signal.set(x), set throws to its    *)
(* caller, the signal holds x, and the subscribers behind the one that      *)
(* threw are not called for this write.                                     *)
C38_ThrowingSubscriberEndsThePass ==
    (lastOp.op = "set" /\ lastOp.prev # lastOp.arg /\ FirstThrower # 0) =>
        /\ error # "none"
        /\ sigValue[lastOp.sig] = lastOp.arg
        /\ Len(Events(trace, "call")) = FirstThrower
        /\ \A i \in 1..FirstThrower : Events(trace, "call")[i].cb = lastOp.subs[i]

(* a marker re-render threw with another subscriber behind it *)
C38_Witness ==
    /\ lastOp.op = "set"
    /\ lastOp.prev # lastOp.arg
    /\ FirstThrower # 0
    /\ FirstThrower < Len(lastOp.subs)
    /\ error = "NON_RENDERABLE_VALUE"

(* ---------------------------------------------------------------------- *)
(* SpecReent: one signal whose subscribers write the signal again          *)
(* ---------------------------------------------------------------------- *)

(* the order in which the subscriber bodies move the value on, so that a   *)
(* chain of nested writes ends                                              *)
Rank(x) == CASE x = "NaN" -> 1 [] x = "pz" -> 2 [] x = "nz" -> 3 [] OTHER -> 4

(* if (sig.get() === when) sig.set(x) *)
ReentBodies ==
    {[act |-> "none", tgt |-> 0, when |-> "one", x |-> "one"]}
    \cup UNION {{[act |-> "set", tgt |-> 0, when |-> a, x |-> b] :
                    b \in {v \in Values : Rank(v) > Rank(a)}} : a \in Values}

InitReent ==
    /\ InitWorld
    /\ fnBody \in [Fns -> ReentBodies]
    /\ payload = [exprs |-> <<>>, comps |-> <<>>, signals |-> AsTuple([i \in Sigs |-> i])]

NextReent ==
    \/ \E f \in Fns : SigSubscribe(f)
    \/ \E f \in Fns : SigUnsubscribe(f)
    \/ \E x \in Values : SigSet(x)

SpecReent == InitReent /\ [][NextReent]_vars

(* what get() returns when the j-th event of the operation happens: the     *)
(* value of the latest write before it                                      *)
LatestWritten(j) ==
    IF \E i \in 1..(j - 1) : trace[i].ev = "userSet"
    THEN trace[CHOOSE i \in 1..(j - 1) :
                  /\ trace[i].ev = "userSet"
                  /\ \A k \in (i + 1)..(j - 1) : trace[k].ev # "userSet"].v
    ELSE lastOp.arg

BodiesMount == {<<>>, <<[op |-> "cleanup"]>>, <<[op |-> "cleanup"], [op |-> "cleanup"]>>}

InitMount == InitTrack

ZenMountCallbackOn(s, body) ==
    /\ s \in DOMAIN scopes
    /\ Len(effects) < MaxEffects
    /\ Apply(zenMountCallback(Begin(World, [op |-> "zenMount", e |-> Len(effects) + 1,
                                            s |-> s]), s, body))

(* zenMount of the V0 build *)
ZenMountV0On(s, body) ==
    /\ s \in DOMAIN scopes
    /\ Len(effects) < MaxEffects
    /\ Apply(zenMountV0(Begin(World, [op |-> "zenMount", e |-> Len(effects) + 1, s |-> s]),
                        s, body))

(* the handle of a mount of the build with disposeMount *)
DisposeMountHandle(e) ==
    /\ e \in DOMAIN effects
    /\ effects[e].kind = "mount"
    /\ DisposeHandle(e)

(* the handle of a mount of the V0 build *)
DisposeHandleV0(e) ==
    /\ e \in DOMAIN effects
    /\ effects[e].kind = "mountV0"
    /\ ~effects[e].handled
    /\ Apply(disposeV0(Begin([World EXCEPT !.effects[e].handled = TRUE],
                             [op |-> "dispose", e |-> e]), e))

NextMount ==
    \/ CreateScope
    \/ \E s \in 1..(1 + MaxScopes) : Activate(s)
    \/ \E s \in 1..(1 + MaxScopes) : DisposeScope(s)
    \/ \E s \in 1..(1 + MaxScopes), body \in BodiesMount : ZenMountCallbackOn(s, body)
    \/ \E s \in 1..(1 + MaxScopes), body \in BodiesMount : ZenMountV0On(s, body)
    \/ \E e \in 1..MaxEffects : DisposeMountHandle(e)
    \/ \E e \in 1..MaxEffects : DisposeHandleV0(e)

SpecMount == InitMount /\ [][NextMount]_vars

(* the cleanups the callback of a mount registered, and how often one of    *)
(* them was invoked                                                         *)
RegisteredCleanups(eff) == SelectSeq(eff.hist, LAMBDA h : h.t = "reg")

TimesInvoked(eff, reg) ==
    Len(SelectSeq(eff.hist, LAMBDA h : h.t = "cleanup" /\ h.k = reg.k /\ h.n = reg.n))

(* a mount of either build, and whether its handle was called or its scope  *)
(* disposed it                                                              *)
IsMount(eff) == eff.kind \in {"mount", "mountV0"}

HandleCalled(eff) == IF eff.kind = "mount" THEN eff.disposed ELSE eff.handled

(* no cleanup of a mount is invoked twice, and each one was invoked once    *)
(* the handle has been called                                               *)
MountCleanupsOnce ==
    \A e \in DOMAIN effects : IsMount(effects[e]) =>
        \A i \in DOMAIN RegisteredCleanups(effects[e]) :
            /\ TimesInvoked(effects[e], RegisteredCleanups(effects[e])[i]) <= 1
            /\ HandleCalled(effects[e]) =>
                  TimesInvoked(effects[e], RegisteredCleanups(effects[e])[i]) = 1

(* a mount whose handle was called before its callback ran does not run in *)
(* the next step either                                                     *)
DisposedMountStaysUnrun ==
    \A e \in DOMAIN effects :
        (IsMount(effects[e]) /\ HandleCalled(effects[e]) /\ RunCount(effects[e]) = 0)
            => RunCount(effects'[e]) = 0

(* C35: the handle of zenMount, called before the scope is ready, keeps the *)
(* callback from ever running; called after the callback ran, it invokes    *)
(* each cleanup the callback registered exactly once, and a later disposal  *)
(* of the scope does not invoke them again.                                 *)
C35_MountHandleDisposesOnce ==
    []MountCleanupsOnce /\ [][DisposedMountStaysUnrun]_vars

(* ---------------------------------------------------------------------- *)
(* diagnostics.js: the payload of the error that rethrowZenithRuntimeError  *)
(* throws                                                                   *)
(* ---------------------------------------------------------------------- *)
VALID_PHASES == {"hydrate", "bind", "render", "event"}

VALID_CODES ==
    {"UNRESOLVED_EXPRESSION", "NON_RENDERABLE_VALUE", "MARKER_MISSING",
     "FRAGMENT_MOUNT_FAILED", "BINDING_APPLY_FAILED", "EVENT_HANDLER_FAILED"}

(* createZenithRuntimeError(details, cause): phase, code and message of the *)
(* payload                                                                  *)
createZenithRuntimeError(details) ==
    [phase |-> IF details.phase \in VALID_PHASES THEN details.phase ELSE "hydrate",
     code |-> IF details.code \in VALID_CODES THEN details.code ELSE "BINDING_APPLY_FAILED",
     message |-> SanitizedMessage(IF details.message = "" THEN "Runtime failure"
                                  ELSE details.message)]

(* _mapLegacyError: message: SanitizedMessage(fallback.message || safeMessage) *)
MappedMessage(thrown, fallback) ==
    SanitizedMessage(IF fallback.message # "" THEN fallback.message
                     ELSE SanitizedMessage(thrown.message))

(* rethrowZenithRuntimeError(error, fallback): the payload of what it throws; *)
(* a value that is a ZenithRuntimeError already keeps its payload             *)
RethrownPayload(thrown, fallback) ==
    IF thrown.zenith
    THEN [phase |-> thrown.phase, code |-> thrown.code, message |-> thrown.message]
    ELSE createZenithRuntimeError(
             [phase |-> _mapLegacyError(thrown, fallback).phase,
              code |-> _mapLegacyError(thrown, fallback).code,
              message |-> MappedMessage(thrown, fallback)])

(* hydrate.js 494-500 and 422-429: the fallbacks of hydrate's catch block   *)
(* and of the wrapper of a click handler                                    *)
FallbackOf(site) ==
    IF site = "hydrate"
    THEN [phase |-> "hydrate", code |-> "BINDING_APPLY_FAILED", message |-> ""]
    ELSE [phase |-> "event", code |-> "EVENT_HANDLER_FAILED",
          message |-> "Event handler failed for \"click\""]

(* ---------------------------------------------------------------------- *)
(* SpecDiag: a value thrown inside hydrate or inside a bound handler is     *)
(* rethrown by rethrowZenithRuntimeError                                    *)
(* ---------------------------------------------------------------------- *)
LongCall == ".map((x)=>x).map((x)=>x).map((x)=>x).map((x)=>x).map((x)=>x)"

RawMessages ==
    {"boom",
     "",
     "  spaced   out\tmessage \n",
     "[Zenith Runtime] failed to resolve expression literal fn(\"/Users/judah/zenith/private/file.ts\", \"C:\\Users\\judah\\secret.ts\", data.value)"
         \o LongCall,
     "non-renderable object at user.profile",
     "unresolved text marker index 3",
     "ENOENT: no such file or directory, open '/home/ci/app/page.ts'",
     "Cannot find module /tmp/build/chunk.js imported from /private/var/site/page.js",
     "cache miss in /var/folders/ab/cd/T/zenith",
     "ENOENT: no such file or directory, open '/etc/zenith/config.json'",
     "Cannot find module /opt/app/dist/page.js",
     "Failed to load D:/work/site/page.ts",
     "handler failed" \o LongCall \o LongCall}

(* the details the runtime's own throwZenithRuntimeError calls are given,   *)
(* and details with a phase and a code outside the lists                    *)
DetailsGiven ==
    [phase : VALID_PHASES \cup {"paint"},
     code : VALID_CODES \cup {"CUSTOM"},
     message : {"", "Event binding at index 0 did not resolve to a function",
                "Failed to mount fragment from /Users/judah/site/card.zen"}]

ThrowsStructured(made) ==
    [threw |-> TRUE, zenith |-> TRUE, code |-> made.code, phase |-> made.phase,
     message |-> made.message]

ThrownValues ==
    {ThrowsError(m) : m \in RawMessages}
        \cup {ThrowsStructured(createZenithRuntimeError(d)) : d \in DetailsGiven}

InitDiag ==
    /\ InitWorld
    /\ fnBody = AsTuple([f \in Fns |-> [act |-> "none", tgt |-> 0]])
    /\ payload \in [thrown : ThrownValues, site : {"hydrate", "event"}]

Escaped(w, site, p) ==
    [w EXCEPT !.error = p.code,
              !.lastOp = [op |-> "rethrow", site |-> site, payload |-> p]]

(* the catch block of hydrate or of a wrapped handler rethrows the value *)
RethrowAt ==
    /\ lastOp.op = "init"
    /\ Apply(Escaped(Begin(World, NoOp), payload.site,
                     RethrownPayload(payload.thrown, FallbackOf(payload.site))))

NextDiag == RethrowAt

SpecDiag == InitDiag /\ [][NextDiag]_vars

(* where a path may begin in a message: at its start, or behind a blank, a  *)
(* quote or a bracket                                                       *)
PathMayBeginAt(text, i) == i = 1 \/ CharAt(text, i - 1) \in {" ", "'", "\"", "("}

(* the text holds an absolute filesystem path: /name/ at a place where a    *)
(* path may begin, or a drive letter, a colon and a slash or backslash      *)
HasAbsolutePath(text) ==
    \E i \in 1..Len(text) :
        /\ PathMayBeginAt(text, i)
        /\ \/ /\ CharAt(text, i) = "/"
              /\ \E j \in (i + 2)..Len(text) :
                    /\ CharAt(text, j) = "/"
                    /\ \A k \in (i + 1)..(j - 1) : IsWordChar(CharAt(text, k))
           \/ /\ i + 3 <= Len(text)
              /\ IsLetter(CharAt(text, i))
              /\ CharAt(text, i + 1) = ":"
              /\ CharAt(text, i + 2) \in {"/", "\\"}
              /\ IsWordChar(CharAt(text, i + 3))

(* C40: every error that escapes hydrate() or a wrapped event handler has a *)
(* payload whose phase is hydrate, bind, render or event, whose code is one *)
(* of the six codes, and whose message has at most 120 characters and holds *)
(* no absolute filesystem path.                                             *)
C40_EscapingErrorIsStructuredAndSanitized ==
    lastOp.op = "rethrow" =>
        /\ lastOp.payload.phase \in VALID_PHASES
        /\ lastOp.payload.code \in VALID_CODES
        /\ Len(lastOp.payload.message) <= MAX_MESSAGE_LENGTH
        /\ ~HasAbsolutePath(lastOp.payload.message)

====
